---- MODULE Spec2Model ----
(***************************************************************************)
(* A model of the academic summarizer: the tracking-document updater       *)
(* (core/master_tracker.py), the orchestrator (core/summarizer.py, cli.py),*)
(* history discovery and parsing (core/history_manager.py), the generation *)
(* client's retry loop (api/openrouter_client.py), context detection       *)
(* (core/context_detector.py) and text extraction (core/pdf_extractor.py). *)
(* Further specifications cover a summary document that is written and    *)
(* parsed again, the paths recorded in entries, and two invocations that   *)
(* update the same tracking documents at the same time.                    *)
(*                                                                         *)
(* Text files are modelled as sequences of lines.  A line is a record      *)
(* [k, s, n]: k is the kind of line (what the regular expressions of the   *)
(* code see of it), s its text payload (a tuple of strings) and n its      *)
(* number payload.  Course codes are tuples of one-character strings, so   *)
(* that prefix matches and the [A-Z] character class are computed.         *)
(***************************************************************************)
EXTENDS Integers, Sequences, FiniteSets, TLC

VARIABLES
    courseDoc,    \* content of <course_folder>/<code>_master.md, or NoFile
    globalDoc,    \* content of the global master file, or NoFile
    today,        \* datetime.now() as a day number
    serial,       \* number of update calls made so far
    owner,        \* history: serial of an update call -> course code it was for
    lastOp,       \* history: the last operation applied to the documents
    manualEdits,  \* history: number of manual deletions so far
    \* one invocation of the command line tool (cli.summarize)
    pc,           \* the stage generate_summary is at
    runNo,        \* number of invocations started
    inp,          \* the invocation's arguments and settings
    context,      \* detect_context's result
    previous,     \* find_previous_summaries' result (files, oldest first)
    sumFiles,     \* summary file of each reading: 0 absent, else its mtime
    clock,        \* file system time: the mtime given to the next write
    failedStage,  \* the stage that raised, "none" when none did
    outcome,      \* "running", "ok" (path printed, exit 0) or "error" (exit 1)
    returned,     \* the path generate_summary returned, "none" when it raised
    snap,         \* history: the persistent state when the invocation started
    ioLog,        \* history: the file accesses of the invocation, in order
    stageLog,     \* history: the stages the invocation entered, in order
    \* HistoryManager.find_previous_summaries as a function of its inputs
    listing,      \* mtimes of the *_summary.md files, in rglob order
    maxSummaries, \* Settings.max_previous_summaries
    found,        \* the returned list (indices into listing)
    folder,       \* the course folder: "unset", "missing" or "present"
    histPc,       \* "start" or "done"
    \* OpenRouterClient.generate_summary under its tenacity retry decorator
    apiPc,        \* "calling", "returned" or "raised"
    attempts,     \* requests sent so far
    errLog,       \* the classified failure of each failed attempt, in order
    apiResult,    \* what the caller gets
    \* ContextDetector.detect_context as a function of its inputs
    detParts,       \* pdf_path.parts: the root, the directories, the file
    courseOverride, \* course_override, <<>> when not given
    weekOverride,   \* week_override, <<>> when not given
    detResult,      \* the returned context
    detPc,          \* "start" or "done"
    \* HistoryManager.extract_context_from_summaries as a function of its input
    parseFiles,     \* summary_paths: what each file holds
    parsePos,       \* the position of the loop in summary_paths
    contexts,       \* the list being built
    parsedFrom,     \* history: the position of the file of each record
    parsePc,        \* "loop", "returned" or "raised"
    \* PDFExtractor: the constructor and extract()
    pdfIn,          \* the file and what each extraction method does with it
    pdfPc,          \* "new", "pdfplumber", "pypdf", "ocr" or "done"
    pdfResult,      \* the text returned or the exception raised
    \* a summary document written by one invocation and parsed by a later one
    rtIn,           \* week, title, author and thesis of the reading
    rtDoc,          \* the lines of the summary document
    rtRec,          \* the record _parse_summary_file returns
    rtPc,           \* "start", "written" or "parsed"
    \* the entry formatters of MasterTracker as functions of their inputs
    entIn,          \* course_folder and summary_path, as path parts
    entOut,         \* the path recorded in the course and in the global entry
    entPc,          \* "start" or "done"
    \* two invocations updating the same master files
    wPc,            \* the step each invocation is at
    wBuf,           \* the content each invocation read
    wData,          \* the summary data each invocation adds
    wLog            \* history: the reads and writes made, in order

docVars == <<courseDoc, globalDoc, today, serial, owner, lastOp, manualEdits>>

runVars == <<pc, runNo, inp, context, previous, sumFiles, clock, failedStage,
             outcome, returned, snap, ioLog, stageLog>>

histVars == <<listing, maxSummaries, found, folder, histPc>>

apiVars == <<apiPc, attempts, errLog, apiResult>>

detVars == <<detParts, courseOverride, weekOverride, detResult, detPc>>

\* The units that are checked as functions of their inputs
parseVars == <<parseFiles, parsePos, contexts, parsedFrom, parsePc>>

pdfVars == <<pdfIn, pdfPc, pdfResult>>

rtVars == <<rtIn, rtDoc, rtRec, rtPc>>

entVars == <<entIn, entOut, entPc>>

wVars == <<wPc, wBuf, wData, wLog>>

moreVars == <<rtVars, entVars, wVars>>

unitVars == <<detVars, parseVars, pdfVars, moreVars>>

vars == <<docVars, runVars, histVars, apiVars, unitVars>>

----------------------------------------------------------------------------
(* Bounds of the model *)

MaxUpdates == 4
MaxDay == 2
MaxManualEdits == 2
MaxRuns == 2
MaxFiles == 4
MaxMtime == 3
MaxSetting == 3

\* Settings.max_previous_summaries, default
DefaultMaxPrevious == 10

----------------------------------------------------------------------------
(* Lines and strings *)

NoFile == <<"absent">>

Line(k, s, n) == [k |-> k, s |-> s, n |-> n]

Blank == Line("blank", <<>>, 0)

Upper == {"A", "B", "C", "D", "E", "F", "G", "H", "I", "J", "K", "L", "M",
          "N", "O", "P", "Q", "R", "S", "T", "U", "V", "W", "X", "Y", "Z"}

IsPrefix(p, s) == Len(p) <= Len(s) /\ SubSeq(s, 1, Len(p)) = p

\* len(re.findall(...)) for a pattern that matches once in each line of kind k
CountKind(content, k) == Cardinality({i \in 1..Len(content) : content[i].k = k})

\* re.search: the first of the places where the pattern matches, 0 when none
FirstMatch(hits) ==
    IF hits = {} THEN 0 ELSE CHOOSE i \in hits : \A j \in hits : i <= j

InsertBefore(seq, j, new) == SubSeq(seq, 1, j - 1) \o new \o SubSeq(seq, j, Len(seq))

\* Course codes: ContextDetector.COURSE_CODE_PATTERN is case-insensitive and
\* keeps the case of the folder name; 3-4 letters then 3-4 digits.
CodeABC101  == <<"A", "B", "C", "1", "0", "1">>
CodeABC1010 == <<"A", "B", "C", "1", "0", "1", "0">>
Codeabc101  == <<"a", "b", "c", "1", "0", "1">>
CodeXYZ200  == <<"X", "Y", "Z", "2", "0", "0">>

Codes == {CodeABC101, CodeABC1010, Codeabc101, CodeXYZ200}

Weeks == {"1", "2"}
Titles == {"Paper"}

SummaryData == [week : Weeks, title : Titles]

----------------------------------------------------------------------------
(* Course master file *)

\* _create_course_master mutated: the template carries an example entry
CourseTemplateWithExample(code, day) ==
    << Line("h1", code, 0),
       Blank,
       Line("note", code, 0),
       Blank,
       Line("h3week", <<"1", "Paper">>, 0),
       Blank,
       Line("rule", <<>>, 0),
       Line("updated", <<>>, day),
       Line("readings", <<>>, 0) >>

\* _create_course_master: the template
CourseTemplate(code, day) ==
    << Line("h1", code, 0),
       Blank,
       Line("note", code, 0),
       Blank,
       Line("rule", <<>>, 0),
       Line("updated", <<>>, day),
       Line("readings", <<>>, 0) >>

\* _format_course_entry: the six lines of an entry block
FormatCourseEntry(data, day, sn) ==
    << Line("h3week", <<data.week, data.title>>, sn),
       Line("author", <<>>, 0),
       Line("thesis", <<>>, 0),
       Line("concepts", <<>>, 0),
       Line("link", <<data.title>>, 0),
       Line("dategen", <<>>, day) >>

\* re.search(r"\n---\n\*Last Updated\*:", content): a line "---" that is not
\* the first line and is followed by a line starting "*Last Updated*:"
CourseFooterIndex(content) ==
    FirstMatch({j \in 2..(Len(content) - 1) :
                   content[j].k = "rule" /\ content[j + 1].k = "updated"})

\* _update_footer mutated: a stored running counter (previous value plus one)
UpdateFooterIncrement(content, day) ==
    [i \in 1..Len(content) |->
        LET l == content[i]
        IN  IF l.k = "updated" THEN Line("updated", l.s, day)
            ELSE IF l.k = "readings" THEN Line("readings", l.s, l.n + 1)
            ELSE l]

\* _update_footer mutated: the dates of the entries are rewritten as well
UpdateFooterRedatesEntries(content, day) ==
    LET reading_count == CountKind(content, "h3week")
    IN  [i \in 1..Len(content) |->
            LET l == content[i]
            IN  IF l.k \in {"updated", "dategen"} THEN Line(l.k, l.s, day)
                ELSE IF l.k = "readings" THEN Line("readings", l.s, reading_count)
                ELSE l]

\* _update_footer: recount, then rewrite the two footer lines
UpdateFooter(content, day) ==
    LET reading_count == CountKind(content, "h3week")
    IN  [i \in 1..Len(content) |->
            LET l == content[i]
            IN  IF l.k = "updated" THEN Line("updated", l.s, day)
                ELSE IF l.k = "readings" THEN Line("readings", l.s, reading_count)
                ELSE l]

\* _update_course_master mutated: the entry is appended to the content
CourseInsertAtEnd(content, new_entry) == content \o <<Blank>> \o new_entry

\* _update_course_master, lines 88-107: insert the entry, then the footer
CourseInsert(content, new_entry) ==
    LET j == CourseFooterIndex(content)
    IN  IF j > 0
        THEN InsertBefore(content, j, new_entry \o <<Blank, Blank>>)
        ELSE content \o <<Blank>> \o new_entry

\* _update_course_master mutated: an entry for the same week and title that
\* is already present is kept and no second one is added
UpdatedCourseContentDeduplicated(content, data, day, sn) ==
    IF \E i \in 1..Len(content) :
           content[i].k = "h3week" /\ content[i].s = <<data.week, data.title>>
    THEN UpdateFooter(content, day)
    ELSE UpdateFooter(CourseInsert(content, FormatCourseEntry(data, day, sn)), day)

UpdatedCourseContent(content, data, day, sn) ==
    UpdateFooter(CourseInsert(content, FormatCourseEntry(data, day, sn)), day)

----------------------------------------------------------------------------
(* Global master file *)

\* _create_global_master: the template
GlobalTemplate(day) ==
    << Line("h1", <<>>, 0),
       Blank,
       Line("note", <<>>, 0),
       Blank,
       Line("rule", <<>>, 0),
       Line("updated", <<>>, day),
       Line("courses", <<>>, 0),
       Line("readings", <<>>, 0) >>

\* _format_global_entry: "- Week <w>: [<title>](<path>) - <author>"
FormatGlobalEntry(data, sn) == Line("gentry", <<data.week, data.title>>, sn)

\* re.search(rf"##\s+{re.escape(course_code)}", content) mutated: never found
CourseMatchNever(content, code) == 0

\* re.search(rf"##\s+{re.escape(course_code)}", content): the first heading
\* line "## <x>" of which course_code is a prefix (the pattern is not anchored
\* at the end of the line)
CourseMatch(content, code) ==
    FirstMatch({i \in 1..Len(content) :
                   content[i].k = "h2" /\ IsPrefix(code, content[i].s)})

\* r"\n##\s+[A-Z]": a heading line, not the first line, whose text starts
\* with an upper-case letter
IsUpperHeading(l) == l.k = "h2" /\ Len(l.s) > 0 /\ l.s[1] \in Upper

IsRule(l) == l.k = "rule"

IsGlobalEntry(l) == l.k = "gentry"

\* _update_global_master, lines 132-166
GlobalInsert(content, code, new_entry) ==
    LET m == CourseMatch(content, code)
    IN  IF m > 0
        THEN LET next_section == FirstMatch({i \in (m + 1)..Len(content) : IsUpperHeading(content[i])})
                 footer == FirstMatch({i \in (m + 1)..Len(content) : IsRule(content[i])})
             IN  IF next_section > 0 THEN InsertBefore(content, next_section, <<new_entry>>)
                 ELSE IF footer > 0 THEN InsertBefore(content, footer, <<new_entry>>)
                 ELSE content \o <<Blank, new_entry>>
        ELSE LET course_section == <<Line("h2", code, 0), new_entry, Blank>>
                 footer_match == FirstMatch({i \in 2..Len(content) : IsRule(content[i])})
             IN  IF footer_match > 0 THEN InsertBefore(content, footer_match, course_section)
                 ELSE content \o <<Blank, Line("h2", code, 0), new_entry>>

\* _update_global_footer
UpdateGlobalFooter(content, day) ==
    LET course_count == Cardinality({i \in 2..Len(content) : IsUpperHeading(content[i])})
        reading_count == CountKind(content, "gentry")
    IN  [i \in 1..Len(content) |->
            LET l == content[i]
            IN  IF l.k = "updated" THEN Line("updated", l.s, day)
                ELSE IF l.k = "courses" THEN Line("courses", l.s, course_count)
                ELSE IF l.k = "readings" THEN Line("readings", l.s, reading_count)
                ELSE l]

UpdatedGlobalContent(content, code, data, day, sn) ==
    UpdateGlobalFooter(GlobalInsert(content, code, FormatGlobalEntry(data, sn)), day)

----------------------------------------------------------------------------
(* The course document under updates and manual deletions *)

TheCourse == CodeABC101

Readings == {"r1", "r2"}

NoContext == [course_code |-> <<>>, course_folder |-> "none", week |-> "none"]

NoInput == [reading |-> "none", use_history |-> FALSE, auto_update_masters |-> FALSE,
            course_known |-> FALSE, max_previous_summaries |-> 0]

FreshDocs ==
    /\ courseDoc = NoFile
    /\ globalDoc = NoFile
    /\ today = 1
    /\ serial = 0
    /\ owner = <<>>
    /\ lastOp = "none"
    /\ manualEdits = 0

IdleRun ==
    /\ pc = "idle"
    /\ runNo = 0
    /\ inp = NoInput
    /\ context = NoContext
    /\ previous = <<>>
    /\ sumFiles = [r \in Readings |-> 0]
    /\ clock = 1
    /\ failedStage = "none"
    /\ outcome = "none"
    /\ returned = "none"
    /\ snap = [sum |-> [r \in Readings |-> 0], course |-> NoFile, global |-> NoFile]
    /\ ioLog = <<>>
    /\ stageLog = <<>>

IdleHist ==
    /\ listing = <<>>
    /\ maxSummaries = 0
    /\ found = <<>>
    /\ folder = "unset"
    /\ histPc = "done"

IdleApi ==
    /\ apiPc = "returned"
    /\ attempts = 0
    /\ errLog = <<>>
    /\ apiResult = "none"

\* detect_context, lines 51-58: every slot None.  A text is a tuple of
\* one-character strings, <<>> stands for None; course_folder is the number
\* of leading parts of the path that make up the directory, 0 for None.
EmptyContext == [course_code |-> <<>>, course_name |-> <<>>, course_folder |-> 0,
                 week |-> <<>>, module |-> <<>>]

IdleDetect ==
    /\ detParts = <<>>
    /\ courseOverride = <<>>
    /\ weekOverride = <<>>
    /\ detResult = EmptyContext
    /\ detPc = "done"

IdleParse ==
    /\ parseFiles = <<>>
    /\ parsePos = 1
    /\ contexts = <<>>
    /\ parsedFrom = <<>>
    /\ parsePc = "returned"

NoPdf == [file |-> "missing", pdfplumber |-> "raises", pypdf |-> "raises",
          ocr |-> "raises", enable_ocr_env |-> FALSE]

NoResult == [kind |-> "none"]

IdlePdf ==
    /\ pdfIn = NoPdf
    /\ pdfPc = "done"
    /\ pdfResult = NoResult

IdleRound ==
    /\ rtIn = <<>>
    /\ rtDoc = <<>>
    /\ rtRec = <<>>
    /\ rtPc = "parsed"

IdleEntry ==
    /\ entIn = <<>>
    /\ entOut = <<>>
    /\ entPc = "done"

IdleWriters ==
    /\ wPc = <<>>
    /\ wBuf = <<>>
    /\ wData = <<>>
    /\ wLog = <<>>

IdleMore == IdleRound /\ IdleEntry /\ IdleWriters

IdleUnits == IdleDetect /\ IdleParse /\ IdlePdf /\ IdleMore

InitDocs == FreshDocs /\ IdleRun /\ IdleHist /\ IdleApi /\ IdleUnits

\* datetime.now() moves on between calls
Tick ==
    /\ today < MaxDay
    /\ today' = today + 1
    /\ UNCHANGED <<courseDoc, globalDoc, serial, owner, lastOp, manualEdits>>
    /\ UNCHANGED <<runVars, histVars, apiVars, unitVars>>

\* _update_course_master on the course document of TheCourse
CourseUpdate ==
    /\ serial < MaxUpdates
    /\ \E data \in SummaryData :
         LET content == IF courseDoc = NoFile
                        THEN CourseTemplate(TheCourse, today)
                        ELSE courseDoc
         IN  courseDoc' = UpdatedCourseContent(content, data, today, serial + 1)
    /\ serial' = serial + 1
    /\ owner' = Append(owner, TheCourse)
    /\ lastOp' = "update"
    /\ UNCHANGED <<globalDoc, today, manualEdits>>
    /\ UNCHANGED <<runVars, histVars, apiVars, unitVars>>

\* The lines of the entry block that starts at heading line i: up to the next
\* entry heading or the footer delimiter
BlockEnd(content, i) ==
    LET stops == {j \in (i + 1)..Len(content) :
                     content[j].k = "h3week" \/ content[j].k = "rule"}
    IN  IF stops = {} THEN Len(content)
        ELSE (CHOOSE j \in stops : \A x \in stops : j <= x) - 1

\* A user deletes one entry block by hand; the footer is left as it was
ManualDeleteBlock ==
    /\ courseDoc # NoFile
    /\ manualEdits < MaxManualEdits
    /\ \E i \in 1..Len(courseDoc) :
         /\ courseDoc[i].k = "h3week"
         /\ courseDoc' = SubSeq(courseDoc, 1, i - 1)
                           \o SubSeq(courseDoc, BlockEnd(courseDoc, i) + 1, Len(courseDoc))
    /\ manualEdits' = manualEdits + 1
    /\ lastOp' = "delete"
    /\ UNCHANGED <<globalDoc, today, serial, owner>>
    /\ UNCHANGED <<runVars, histVars, apiVars, unitVars>>

NextCourse == Tick \/ CourseUpdate \/ ManualDeleteBlock

SpecCourse == InitDocs /\ [][NextCourse]_vars

\* The footer's "Total Readings" values (one per footer line of that kind)
FooterValues(content, kind) == {content[i].n : i \in {j \in 1..Len(content) : content[j].k = kind}}

\* C1: after an update call the course document's 'Total Readings' footer
\* value equals the number of '### Week' entry markers in the body that call
\* wrote, also when entry blocks were deleted by hand between calls.
C1_FooterIsRecount ==
    (lastOp = "update") =>
        FooterValues(courseDoc, "readings") = {CountKind(courseDoc, "h3week")}

\* An update that follows a manual deletion: the stored footer was stale
C1_Witness ==
    /\ lastOp = "update"
    /\ manualEdits > 0
    /\ CountKind(courseDoc, "h3week") >= 1
    /\ CountKind(courseDoc, "h3week") < serial

\* The lines of the header zone, of an entry block and of the footer zone
HeaderKinds == <<"h1", "blank", "note", "blank">>

BlockKinds == <<"h3week", "author", "thesis", "concepts", "link", "dategen">>

FooterKinds == <<"rule", "updated", "readings">>

KindsOf(content) == [i \in 1..Len(content) |-> content[i].k]

\* C24: a course document created from the template consists, after any
\* sequence of updates, of the header, then the entry blocks in the order in
\* which they were added (a new block goes immediately before the footer
\* delimiter, after all existing blocks), then exactly one footer as the last
\* zone.
C24_ThreeZones ==
    (courseDoc # NoFile) =>
        LET n == Len(courseDoc)
            kinds == KindsOf(courseDoc)
            heads == {i \in 1..n : kinds[i] = "h3week"}
        IN  /\ n >= Len(HeaderKinds) + Len(FooterKinds)
            /\ SubSeq(kinds, 1, Len(HeaderKinds)) = HeaderKinds
            /\ courseDoc[1].s = TheCourse
            /\ SubSeq(kinds, n - Len(FooterKinds) + 1, n) = FooterKinds
            /\ CountKind(courseDoc, "rule") = 1
            /\ CountKind(courseDoc, "updated") = 1
            /\ CountKind(courseDoc, "readings") = 1
            /\ \A i \in (Len(HeaderKinds) + 1)..(n - Len(FooterKinds)) :
                  \/ kinds[i] = "blank"
                  \/ \E h \in heads :
                        /\ h <= i /\ i < h + Len(BlockKinds)
                        /\ SubSeq(kinds, h, h + Len(BlockKinds) - 1) = BlockKinds
            /\ \A i, j \in heads : i < j => courseDoc[i].n < courseDoc[j].n
            /\ (lastOp = "update") =>
                  /\ heads # {}
                  /\ \A i \in heads : courseDoc[i].n <= serial
                  /\ \E i \in heads :
                        /\ courseDoc[i].n = serial
                        /\ i + Len(BlockKinds) + 2 = n - Len(FooterKinds) + 1

\* Three blocks added on different days, in the order of their addition
C24_Witness ==
    /\ courseDoc # NoFile
    /\ manualEdits = 0
    /\ lastOp = "update"
    /\ today > 1
    /\ CountKind(courseDoc, "h3week") = 3
    /\ [i \in 1..3 |->
          courseDoc[Len(HeaderKinds) + 1 + (i - 1) * (Len(BlockKinds) + 2)].n] = <<1, 2, 3>>

----------------------------------------------------------------------------
(* The global document under updates for several course codes *)

\* _update_global_master for a tracker constructed with course_code = code
GlobalUpdate ==
    /\ serial < MaxUpdates
    /\ \E code \in Codes, data \in SummaryData :
         LET content == IF globalDoc = NoFile THEN GlobalTemplate(today) ELSE globalDoc
         IN  /\ globalDoc' = UpdatedGlobalContent(content, code, data, today, serial + 1)
             /\ owner' = Append(owner, code)
    /\ serial' = serial + 1
    /\ lastOp' = "update"
    /\ UNCHANGED <<courseDoc, today, manualEdits>>
    /\ UNCHANGED <<runVars, histVars, apiVars, unitVars>>

NextGlobal == Tick \/ GlobalUpdate

SpecGlobal == InitDocs /\ [][NextGlobal]_vars

HeadingIndices(content) == {i \in 1..Len(content) : content[i].k = "h2"}

\* The code of the section line i lies in: the nearest '##' heading above it
SectionCode(content, i) ==
    LET above == {j \in HeadingIndices(content) : j < i}
    IN  IF above = {} THEN <<>>
        ELSE content[CHOOSE j \in above : \A x \in above : x <= j].s

\* C2: the global footer's 'Total Courses' equals the number of distinct
\* '## <COURSE_CODE>' sections in the body and 'Total Readings' equals the
\* number of '- Week' entry lines, for every course code the detector or an
\* override can produce.
C2_GlobalFooterCounts ==
    (lastOp = "update" /\ globalDoc # NoFile) =>
        /\ FooterValues(globalDoc, "courses")
             = {Cardinality({globalDoc[i].s : i \in HeadingIndices(globalDoc)})}
        /\ FooterValues(globalDoc, "readings") = {CountKind(globalDoc, "gentry")}

\* C3: every entry of the global document lies in the section whose heading
\* is exactly the course code the entry was added for.
C3_EntryInOwnSection ==
    (globalDoc # NoFile) =>
        \A i \in 1..Len(globalDoc) :
            IsGlobalEntry(globalDoc[i]) =>
                SectionCode(globalDoc, i) = owner[globalDoc[i].n]

\* C4: each course code has at most one '## <code>' heading in the global
\* document, whatever updates were made.
C4_OneHeadingPerCourse ==
    (globalDoc # NoFile) =>
        \A c \in Codes :
            Cardinality({i \in HeadingIndices(globalDoc) : globalDoc[i].s = c}) <= 1

\* A second entry was added for a course whose section already existed
C4_Witness ==
    /\ globalDoc # NoFile
    /\ \E c \in Codes :
         /\ Cardinality({i \in HeadingIndices(globalDoc) : globalDoc[i].s = c}) = 1
         /\ Cardinality({i \in 1..Len(globalDoc) :
                            /\ IsGlobalEntry(globalDoc[i])
                            /\ owner[globalDoc[i].n] = c
                            /\ SectionCode(globalDoc, i) = c}) >= 2

----------------------------------------------------------------------------
(* Both documents under updates on different days *)

NextDocs == Tick \/ CourseUpdate \/ GlobalUpdate

SpecDocs == InitDocs /\ [][NextDocs]_vars

\* The content without the k lines from line j on
Without(content, j, k) == SubSeq(content, 1, j - 1) \o SubSeq(content, j + k, Len(content))

RuleIndex(content) == FirstMatch({i \in 1..Len(content) : IsRule(content[i])})

\* Line for line the same, but for the number payload (the date, the
\* counter) of the lines of the given kinds that follow the footer delimiter
SameButFooter(old, rest, kinds) ==
    /\ Len(rest) = Len(old)
    /\ \A i \in 1..Len(old) :
          \/ rest[i] = old[i]
          \/ /\ i > RuleIndex(old)
             /\ old[i].k \in kinds
             /\ rest[i].k = old[i].k
             /\ rest[i].s = old[i].s

\* new is old with one run of added lines of the given kinds, of which the
\* entry marker carries the serial sn, and with the footer lines rewritten
FrameOf(old, new, added, marker, sn, footer) ==
    /\ Len(new) > Len(old)
    /\ \E j \in 1..(Len(old) + 1) :
          /\ SameButFooter(old, Without(new, j, Len(new) - Len(old)), footer)
          /\ \A i \in j..(j + Len(new) - Len(old) - 1) :
                /\ new[i].k \in added
                /\ new[i].k = marker => new[i].n = sn
          /\ Cardinality({i \in j..(j + Len(new) - Len(old) - 1) : new[i].k = marker}) = 1

\* C28: an update of a tracking document leaves its header and every entry
\* that was there before the call as they were and in the same order; only
\* the new entry (and, in the global document, a new course heading) is
\* added, and only the date and counter lines of the footer are rewritten.
C28_UpdateFrame ==
    [][ /\ (courseDoc' # courseDoc) =>
             FrameOf(IF courseDoc = NoFile THEN CourseTemplate(TheCourse, today) ELSE courseDoc,
                     courseDoc',
                     {"blank", "h3week", "author", "thesis", "concepts", "link", "dategen"},
                     "h3week", serial', {"updated", "readings"})
        /\ (globalDoc' # globalDoc) =>
             /\ FrameOf(IF globalDoc = NoFile THEN GlobalTemplate(today) ELSE globalDoc,
                        globalDoc', {"blank", "gentry", "h2"},
                        "gentry", serial', {"updated", "courses", "readings"})
             /\ globalDoc # NoFile =>
                   \A i \in HeadingIndices(globalDoc') :
                       \/ \E j \in HeadingIndices(globalDoc) : globalDoc[j] = globalDoc'[i]
                       \/ globalDoc'[i].s = owner'[serial']
      ]_vars

\* Both documents hold entries added on different days, the global document
\* in two course sections
C28_Witness ==
    /\ lastOp = "update"
    /\ courseDoc # NoFile
    /\ globalDoc # NoFile
    /\ {courseDoc[i].n : i \in {j \in 1..Len(courseDoc) : courseDoc[j].k = "dategen"}} = {1, 2}
    /\ Cardinality(HeadingIndices(globalDoc)) = 2
    /\ CountKind(globalDoc, "gentry") = 2
    /\ today = 2

----------------------------------------------------------------------------
(* HistoryManager.find_previous_summaries *)

\* summary_files.sort(key=mtime): Python's sort is stable, so files of equal
\* mtime keep their enumeration order.  Files are indices into lst.
SortByMtime(lst) ==
    LET Before(j, i) == lst[j] < lst[i] \/ (lst[j] = lst[i] /\ j < i)
        Rank(i) == Cardinality({j \in 1..Len(lst) : Before(j, i)}) + 1
    IN  [r \in 1..Len(lst) |-> CHOOSE i \in 1..Len(lst) : Rank(i) = r]

\* The Python slice s[-n:] for n >= 0: -0 is 0, so s[-0:] is the whole list
SliceFromMinus(s, n) ==
    IF n = 0 \/ n >= Len(s) THEN s ELSE SubSeq(s, Len(s) - n + 1, Len(s))

\* find_previous_summaries, lines 49-67
FindPrevious(lst, max_summaries) ==
    LET summary_files == SortByMtime(lst)
    IN  IF Len(summary_files) > max_summaries
        THEN SliceFromMinus(summary_files, max_summaries)
        ELSE summary_files

Listings == UNION {[1..n -> 1..MaxMtime] : n \in 0..MaxFiles}

InitHist ==
    /\ FreshDocs /\ IdleRun /\ IdleApi /\ IdleUnits
    /\ folder \in {"unset", "missing", "present"}
    /\ listing \in (IF folder = "present" THEN Listings ELSE {<<>>})
    /\ maxSummaries \in 0..MaxSetting
    /\ found = <<>>
    /\ histPc = "start"

\* lines 39-45: no course folder, or one that does not exist, gives []
FindNoFolder ==
    /\ histPc = "start"
    /\ folder # "present"
    /\ found' = <<>>
    /\ histPc' = "done"
    /\ UNCHANGED <<listing, maxSummaries, folder, docVars, runVars, apiVars, unitVars>>

FindInFolder ==
    /\ histPc = "start"
    /\ folder = "present"
    /\ found' = FindPrevious(listing, maxSummaries)
    /\ histPc' = "done"
    /\ UNCHANGED <<listing, maxSummaries, folder, docVars, runVars, apiVars, unitVars>>

NextHist == FindNoFolder \/ FindInFolder

SpecHist == InitHist /\ [][NextHist]_vars

InFound(i) == \E a \in 1..Len(found) : found[a] = i

\* C9: find_previous_summaries returns at most N files for every N >= 0 the
\* configuration accepts, and when more than N exist it returns exactly the N
\* most recently modified ones, oldest first.
C9_TruncatesToNewestN ==
    (histPc = "done" /\ folder = "present") =>
        /\ Len(found) <= maxSummaries
        /\ Len(listing) > maxSummaries =>
             /\ Len(found) = maxSummaries
             /\ \A a, b \in 1..Len(found) :
                    a < b => found[a] # found[b] /\ listing[found[a]] <= listing[found[b]]
             /\ \A i \in 1..Len(listing), a \in 1..Len(found) :
                    ~InFound(i) => listing[i] <= listing[found[a]]

----------------------------------------------------------------------------
(* OpenRouterClient.generate_summary and its retry decorator *)

\* stop_after_attempt(3)
MaxAttempts == 3

\* What one request can end with, other than a non-empty text: an empty
\* text, or an exception of the OpenAI client.
RequestFailures == {"empty", "unauthorized", "rate_limit", "timeout", "connection", "bad_request"}

\* lines 90-111: every exception of the try block, the APIError of the empty
\* response included, is caught and raised again as an APIError, classified
\* by the text of the message
Classify(failure) ==
    [type |-> "APIError",
     status |-> CASE failure = "unauthorized" -> 401
                  [] failure = "rate_limit" -> 429
                  [] failure = "timeout" -> 408
                  [] OTHER -> 0,
     cause |-> failure]

\* retry_if_exception_type((APIError, ConnectionError))
RetryIf(exc) == exc.type \in {"APIError", "ConnectionError"}

InitApi ==
    /\ FreshDocs /\ IdleRun /\ IdleHist /\ IdleUnits
    /\ apiPc = "calling"
    /\ attempts = 0
    /\ errLog = <<>>
    /\ apiResult = "none"

RequestOk ==
    /\ apiPc = "calling"
    /\ attempts' = attempts + 1
    /\ apiPc' = "returned"
    /\ apiResult' = "summary"
    /\ UNCHANGED <<errLog, docVars, runVars, histVars, unitVars>>

\* The retry loop mutated: the stop condition lets one attempt too many through
RequestFailOneMore ==
    /\ apiPc = "calling"
    /\ \E failure \in RequestFailures :
         LET exc == Classify(failure)
         IN  /\ errLog' = Append(errLog, exc)
             /\ attempts' = attempts + 1
             /\ IF RetryIf(exc) /\ attempts + 1 <= MaxAttempts
                THEN UNCHANGED <<apiPc, apiResult>>
                ELSE apiPc' = "raised" /\ apiResult' = "APIError"
    /\ UNCHANGED <<docVars, runVars, histVars, unitVars>>

RequestFail ==
    /\ apiPc = "calling"
    /\ \E failure \in RequestFailures :
         LET exc == Classify(failure)
         IN  /\ errLog' = Append(errLog, exc)
             /\ attempts' = attempts + 1
             /\ IF RetryIf(exc) /\ attempts + 1 < MaxAttempts
                THEN UNCHANGED <<apiPc, apiResult>>
                ELSE apiPc' = "raised" /\ apiResult' = "APIError"
    /\ UNCHANGED <<docVars, runVars, histVars, unitVars>>

NextApi == RequestOk \/ RequestFail

SpecApi == InitApi /\ [][NextApi]_vars

\* C10: a failure classified as authentication (401), or a non-transient
\* generic error, is surfaced after the attempt it occurred in: no further
\* request is sent after it.
C10_NoRetryOfPermanentFailure ==
    \A i \in 1..Len(errLog) :
        errLog[i].cause \in {"unauthorized", "bad_request"} => attempts = i

\* C11: one call to generate_summary sends at most 3 requests; it is still
\* calling only while fewer than 3 were sent; it returns only a non-empty
\* generated text, that of the first request that produced one (every request
\* before it failed); and it raises only a classified APIError, after the
\* last allowed attempt failed.  An empty response is a failed attempt.
C11_AttemptsBounded ==
    /\ attempts <= MaxAttempts
    /\ Len(errLog) <= attempts
    /\ \A i \in 1..Len(errLog) : errLog[i].type = "APIError"
    /\ (apiPc = "calling") => (attempts < MaxAttempts /\ Len(errLog) = attempts
                                 /\ apiResult = "none")
    /\ (apiPc = "returned") => (apiResult = "summary" /\ Len(errLog) = attempts - 1)
    /\ (apiPc = "raised") => (apiResult = "APIError" /\ attempts = MaxAttempts
                                /\ Len(errLog) = MaxAttempts)

\* The last allowed attempt failed after an empty response was retried
C11_Witness ==
    /\ apiPc = "raised"
    /\ attempts = MaxAttempts
    /\ errLog[1].cause = "empty"
    /\ errLog[MaxAttempts].cause = "timeout"

----------------------------------------------------------------------------
(* One invocation: cli.summarize calling AcademicSummarizer.generate_summary *)

\* The readings lie in week folders of one course folder; with the default
\* output path a summary is written beside its PDF, so under the course folder
ReadingOrder == <<"r1", "r2">>

WeekOf(r) == IF r = "r1" THEN "1" ELSE "2"

RunInputs == [reading : Readings, use_history : BOOLEAN,
              auto_update_masters : BOOLEAN, course_known : BOOLEAN,
              max_previous_summaries : {0, DefaultMaxPrevious}]

\* The *_summary.md files under the course folder, as find_previous_summaries
\* sees them
ExistingSummaries == SelectSeq(ReadingOrder, LAMBDA r : sumFiles[r] > 0)

\* find_previous_summaries mutated: the summary of the input reading is left
\* out of the discovery
PreviousSummariesWithoutOwn(max_summaries) ==
    LET files == SelectSeq(ExistingSummaries, LAMBDA r : r # inp.reading)
        kept == FindPrevious([i \in 1..Len(files) |-> sumFiles[files[i]]], max_summaries)
    IN  [i \in 1..Len(kept) |-> files[kept[i]]]

PreviousSummaries(max_summaries) ==
    LET files == ExistingSummaries
        kept == FindPrevious([i \in 1..Len(files) |-> sumFiles[files[i]]], max_summaries)
    IN  [i \in 1..Len(kept) |-> files[kept[i]]]

\* cli.summarize, lines 151-169: any exception ends the process with exit
\* status 1 after the error is printed; no path is handed to the caller
Raise(stage) ==
    /\ pc' = "done"
    /\ failedStage' = stage
    /\ outcome' = "error"
    /\ returned' = "none"

StartRun ==
    /\ pc \in {"idle", "done"}
    /\ runNo < MaxRuns
    /\ \E i \in RunInputs : inp' = i
    /\ runNo' = runNo + 1
    /\ pc' = "extract"
    /\ context' = NoContext
    /\ previous' = <<>>
    /\ failedStage' = "none"
    /\ outcome' = "running"
    /\ returned' = "none"
    /\ snap' = [sum |-> sumFiles, course |-> courseDoc, global |-> globalDoc]
    /\ ioLog' = <<>>
    /\ stageLog' = <<>>
    /\ UNCHANGED <<sumFiles, clock, docVars, histVars, apiVars, unitVars>>

\* Step 1, lines 65-69
ExtractOk ==
    /\ pc = "extract"
    /\ stageLog' = Append(stageLog, "extract")
    /\ pc' = "detect"
    /\ UNCHANGED <<runNo, inp, context, previous, sumFiles, clock, failedStage,
                   outcome, returned, snap, ioLog, docVars, histVars, apiVars, unitVars>>

ExtractFail ==
    /\ pc = "extract"
    /\ stageLog' = Append(stageLog, "extract")
    /\ Raise("extract")
    /\ UNCHANGED <<runNo, inp, context, previous, sumFiles, clock, snap, ioLog,
                   docVars, histVars, apiVars, unitVars>>

\* The condition of step 3 mutated: the history scan runs whenever a course
\* folder is known, use_history or not
DetectContextAlwaysHistory ==
    /\ pc = "detect"
    /\ stageLog' = Append(stageLog, "detect_context")
    /\ context' = [course_code |-> IF inp.course_known THEN TheCourse ELSE <<>>,
                   course_folder |-> "folder",
                   week |-> WeekOf(inp.reading)]
    /\ pc' = IF context'.course_folder # "none" THEN "find_history" ELSE "build"
    /\ UNCHANGED <<runNo, inp, previous, sumFiles, clock, failedStage, outcome,
                   returned, snap, ioLog, docVars, histVars, apiVars, unitVars>>

\* Steps 2 and 3-4's condition, lines 71-84 and 98-102: detection never
\* raises and always binds a course folder
DetectContext ==
    /\ pc = "detect"
    /\ stageLog' = Append(stageLog, "detect_context")
    /\ context' = [course_code |-> IF inp.course_known THEN TheCourse ELSE <<>>,
                   course_folder |-> "folder",
                   week |-> WeekOf(inp.reading)]
    /\ pc' = IF inp.use_history /\ context'.course_folder # "none"
             THEN "find_history" ELSE "build"
    /\ UNCHANGED <<runNo, inp, previous, sumFiles, clock, failedStage, outcome,
                   returned, snap, ioLog, docVars, histVars, apiVars, unitVars>>

\* Step 3, lines 85-92
FindHistoryOk ==
    /\ pc = "find_history"
    /\ stageLog' = Append(stageLog, "find_history")
    /\ previous' = PreviousSummaries(inp.max_previous_summaries)
    /\ pc' = IF previous' # <<>> THEN "extract_history" ELSE "build"
    /\ UNCHANGED <<runNo, inp, context, sumFiles, clock, failedStage, outcome,
                   returned, snap, ioLog, docVars, histVars, apiVars, unitVars>>

\* The history failure mutated: logged and swallowed, the run goes on
FindHistoryFailSwallowed ==
    /\ pc = "find_history"
    /\ stageLog' = Append(stageLog, "find_history")
    /\ failedStage' = "history"
    /\ pc' = "build"
    /\ UNCHANGED <<runNo, inp, context, previous, sumFiles, clock, outcome,
                   returned, snap, ioLog, docVars, histVars, apiVars, unitVars>>

\* history_manager.py lines 69-74: HistoryError, not caught by the orchestrator
FindHistoryFail ==
    /\ pc = "find_history"
    /\ stageLog' = Append(stageLog, "find_history")
    /\ Raise("history")
    /\ UNCHANGED <<runNo, inp, context, previous, sumFiles, clock, snap, ioLog,
                   docVars, histVars, apiVars, unitVars>>

\* Step 4, lines 92-97: per-file failures are swallowed inside
ExtractHistoryContext ==
    /\ pc = "extract_history"
    /\ stageLog' = Append(stageLog, "extract_history_context")
    /\ pc' = "build"
    /\ UNCHANGED <<runNo, inp, context, previous, sumFiles, clock, failedStage,
                   outcome, returned, snap, ioLog, docVars, histVars, apiVars, unitVars>>

\* Step 5, lines 104-111
BuildPrompt ==
    /\ pc = "build"
    /\ stageLog' = Append(stageLog, "build_request")
    /\ pc' = "generate"
    /\ UNCHANGED <<runNo, inp, context, previous, sumFiles, clock, failedStage,
                   outcome, returned, snap, ioLog, docVars, histVars, apiVars, unitVars>>

\* Step 6 mutated: the generated text is saved without being formatted
GenerateOkUnformatted ==
    /\ pc = "generate"
    /\ stageLog' = Append(stageLog, "generate")
    /\ pc' = "save"
    /\ UNCHANGED <<runNo, inp, context, previous, sumFiles, clock, failedStage,
                   outcome, returned, snap, ioLog, docVars, histVars, apiVars, unitVars>>

\* Step 6, lines 113-117
GenerateOk ==
    /\ pc = "generate"
    /\ stageLog' = Append(stageLog, "generate")
    /\ pc' = "format"
    /\ UNCHANGED <<runNo, inp, context, previous, sumFiles, clock, failedStage,
                   outcome, returned, snap, ioLog, docVars, histVars, apiVars, unitVars>>

GenerateFail ==
    /\ pc = "generate"
    /\ stageLog' = Append(stageLog, "generate")
    /\ Raise("generate")
    /\ UNCHANGED <<runNo, inp, context, previous, sumFiles, clock, snap, ioLog,
                   docVars, histVars, apiVars, unitVars>>

\* Step 7, lines 119-125; OutputFormatter.format_summary validates the text
FormatOk ==
    /\ pc = "format"
    /\ stageLog' = Append(stageLog, "format")
    /\ pc' = "save"
    /\ UNCHANGED <<runNo, inp, context, previous, sumFiles, clock, failedStage,
                   outcome, returned, snap, ioLog, docVars, histVars, apiVars, unitVars>>

FormatFail ==
    /\ pc = "format"
    /\ stageLog' = Append(stageLog, "format")
    /\ Raise("format")
    /\ UNCHANGED <<runNo, inp, context, previous, sumFiles, clock, snap, ioLog,
                   docVars, histVars, apiVars, unitVars>>

\* Step 8 and step 9's condition, lines 127-137 and 154-159
SaveSummary ==
    /\ pc = "save"
    /\ stageLog' = Append(stageLog, "persist_summary")
    /\ sumFiles' = [sumFiles EXCEPT ![inp.reading] = clock]
    /\ clock' = clock + 1
    /\ ioLog' = Append(ioLog, "write_summary")
    /\ IF inp.auto_update_masters /\ context.course_code # <<>>
       THEN /\ pc' = "update_course"
            /\ serial' = serial + 1
            /\ owner' = Append(owner, context.course_code)
       ELSE /\ pc' = "return"
            /\ UNCHANGED <<serial, owner>>
    /\ UNCHANGED <<runNo, inp, context, previous, failedStage, outcome, returned,
                   snap, courseDoc, globalDoc, today, lastOp, manualEdits,
                   histVars, apiVars, unitVars>>

RunData == [week |-> context.week, title |-> "Paper"]

\* The accesses of an update of a master file that did or did not exist
UpdateLog(doc, name) ==
    (IF doc = NoFile THEN <<"create_" \o name>> ELSE <<>>)
        \o <<"read_" \o name, "write_" \o name>>

\* The accesses made before an update fails at its creation, read or write
FailureLog(doc, name, at) ==
    IF at = "create" THEN <<>>
    ELSE (IF doc = NoFile THEN <<"create_" \o name>> ELSE <<>>)
            \o (IF at = "write" THEN <<"read_" \o name>> ELSE <<>>)

\* The file after such a failure: the template when the file was created
AfterFailure(doc, template, at) ==
    IF doc = NoFile /\ at # "create" THEN template ELSE doc

FailurePoints(doc) == IF doc = NoFile THEN {"create", "read", "write"} ELSE {"read", "write"}

\* _update_course_master mutated: template and entry written by one write
UpdateCourseMasterOneWrite ==
    /\ pc = "update_course"
    /\ stageLog' = Append(stageLog, "update_tracking")
    /\ courseDoc' = UpdatedCourseContent(
                        IF courseDoc = NoFile THEN CourseTemplate(TheCourse, today) ELSE courseDoc,
                        RunData, today, serial)
    /\ ioLog' = ioLog \o <<"read_course", "write_course">>
    /\ lastOp' = "update"
    /\ pc' = "update_global"
    /\ UNCHANGED <<runNo, inp, context, previous, sumFiles, clock, failedStage,
                   outcome, returned, snap, globalDoc, today, serial, owner,
                   manualEdits, histVars, apiVars, unitVars>>

\* update_masters, lines 59-60, and _update_course_master
UpdateCourseMaster ==
    /\ pc = "update_course"
    /\ stageLog' = Append(stageLog, "update_tracking")
    /\ courseDoc' = UpdatedCourseContent(
                        IF courseDoc = NoFile THEN CourseTemplate(TheCourse, today) ELSE courseDoc,
                        RunData, today, serial)
    /\ ioLog' = ioLog \o UpdateLog(courseDoc, "course")
    /\ lastOp' = "update"
    /\ pc' = "update_global"
    /\ UNCHANGED <<runNo, inp, context, previous, sumFiles, clock, failedStage,
                   outcome, returned, snap, globalDoc, today, serial, owner,
                   manualEdits, histVars, apiVars, unitVars>>

\* The course update failure mutated: the summary file is rolled back
UpdateCourseMasterFailRollback ==
    /\ pc = "update_course"
    /\ stageLog' = Append(stageLog, "update_tracking")
    /\ sumFiles' = [sumFiles EXCEPT ![inp.reading] = 0]
    /\ Raise("masters")
    /\ UNCHANGED <<runNo, inp, context, previous, clock, snap, ioLog, docVars,
                   histVars, apiVars, unitVars>>

\* update_masters, lines 67-69: a failure inside _update_course_master is
\* raised as MasterFileError; the global master is not reached
UpdateCourseMasterFail ==
    /\ pc = "update_course"
    /\ stageLog' = Append(stageLog, "update_tracking")
    /\ \E at \in FailurePoints(courseDoc) :
         /\ courseDoc' = AfterFailure(courseDoc, CourseTemplate(TheCourse, today), at)
         /\ ioLog' = ioLog \o FailureLog(courseDoc, "course", at)
    /\ Raise("masters")
    /\ UNCHANGED <<runNo, inp, context, previous, sumFiles, clock, snap,
                   globalDoc, today, serial, owner, lastOp, manualEdits,
                   histVars, apiVars, unitVars>>

\* update_masters, line 63, and _update_global_master
UpdateGlobalMaster ==
    /\ pc = "update_global"
    /\ UNCHANGED stageLog
    /\ globalDoc' = UpdatedGlobalContent(
                        IF globalDoc = NoFile THEN GlobalTemplate(today) ELSE globalDoc,
                        context.course_code, RunData, today, serial)
    /\ ioLog' = ioLog \o UpdateLog(globalDoc, "global")
    /\ lastOp' = "update"
    /\ pc' = "return"
    /\ UNCHANGED <<runNo, inp, context, previous, sumFiles, clock, failedStage,
                   outcome, returned, snap, courseDoc, today, serial, owner,
                   manualEdits, histVars, apiVars, unitVars>>

\* The global update failure mutated: the course master is put back as it
\* was before the call
UpdateGlobalMasterFailRollback ==
    /\ pc = "update_global"
    /\ UNCHANGED stageLog
    /\ \E at \in FailurePoints(globalDoc) :
         /\ globalDoc' = AfterFailure(globalDoc, GlobalTemplate(today), at)
         /\ ioLog' = ioLog \o FailureLog(globalDoc, "global", at)
    /\ courseDoc' = snap.course
    /\ Raise("masters")
    /\ UNCHANGED <<runNo, inp, context, previous, sumFiles, clock, snap,
                   today, serial, owner, lastOp, manualEdits,
                   histVars, apiVars, unitVars>>

\* update_masters, lines 67-69: MasterFileError; the course master keeps what
\* _update_course_master wrote
UpdateGlobalMasterFail ==
    /\ pc = "update_global"
    /\ UNCHANGED stageLog
    /\ \E at \in FailurePoints(globalDoc) :
         /\ globalDoc' = AfterFailure(globalDoc, GlobalTemplate(today), at)
         /\ ioLog' = ioLog \o FailureLog(globalDoc, "global", at)
    /\ Raise("masters")
    /\ UNCHANGED <<runNo, inp, context, previous, sumFiles, clock, snap,
                   courseDoc, today, serial, owner, lastOp, manualEdits,
                   histVars, apiVars, unitVars>>

\* summarizer.py line 171 and cli.py lines 133-135: the path is returned and
\* printed
ReturnPath ==
    /\ pc = "return"
    /\ UNCHANGED stageLog
    /\ pc' = "done"
    /\ outcome' = "ok"
    /\ returned' = inp.reading
    /\ UNCHANGED <<runNo, inp, context, previous, sumFiles, clock, failedStage,
                   snap, ioLog, docVars, histVars, apiVars, unitVars>>

NextRun ==
    \/ StartRun
    \/ ExtractOk \/ ExtractFail
    \/ DetectContext
    \/ FindHistoryOk \/ FindHistoryFail
    \/ ExtractHistoryContext
    \/ BuildPrompt
    \/ GenerateOk \/ GenerateFail
    \/ FormatOk \/ FormatFail
    \/ SaveSummary
    \/ UpdateCourseMaster \/ UpdateCourseMasterFail
    \/ UpdateGlobalMaster \/ UpdateGlobalMasterFail
    \/ ReturnPath

SpecRun == InitDocs /\ [][NextRun]_vars

\* Number of writes of the master file `name` in this invocation
Writes(name) ==
    Cardinality({i \in 1..Len(ioLog) : ioLog[i] \in {"create_" \o name, "write_" \o name}})

SummaryWritten == \E i \in 1..Len(ioLog) : ioLog[i] = "write_summary"

TrackingStageRuns == inp.auto_update_masters /\ context.course_code # <<>>

\* C5: when update_masters fails after the summary file was written, the
\* invocation still completes and hands the caller the path of the summary.
C5_TrackingFailureNonFatal ==
    (pc = "done" /\ failedStage = "masters") =>
        (outcome = "ok" /\ returned = inp.reading)

\* C6: the summary file is written before any tracking document is read or
\* written, and from then on in the invocation, a failure of a tracking
\* document update included, it stays as it was written (and the summaries of
\* the other readings stay as they were).
C6_SummaryWrittenFirstAndKept ==
    /\ \A i \in 1..Len(ioLog) :
          ioLog[i] # "write_summary" => \E j \in 1..(i - 1) : ioLog[j] = "write_summary"
    /\ SummaryWritten =>
          /\ sumFiles[inp.reading] = clock - 1
          /\ \A r \in Readings \ {inp.reading} : sumFiles[r] = snap.sum[r]

\* A tracking document update failed after it had touched a document
C6_Witness ==
    /\ pc = "done"
    /\ failedStage = "masters"
    /\ Len(ioLog) >= 3
    /\ sumFiles[inp.reading] = clock - 1

\* C7: an invocation in which extraction, history scan, generation or
\* formatting/validation fails writes no summary file and creates or modifies
\* no tracking document.
C7_EarlyFailureChangesNothing ==
    (pc = "done" /\ failedStage \in {"extract", "history", "generate", "format"}) =>
        /\ ioLog = <<>>
        /\ sumFiles = snap.sum
        /\ courseDoc = snap.course
        /\ globalDoc = snap.global

\* A failing invocation that follows one which left files behind
C7_Witness ==
    /\ pc = "done"
    /\ failedStage = "history"
    /\ outcome = "error"
    /\ courseDoc # NoFile
    /\ globalDoc # NoFile
    /\ \E r \in Readings : sumFiles[r] > 0

\* C8, as claimed: every completed invocation writes each tracking document
\* file exactly once, whether the file existed before or not.
C8_EachDocWrittenOnce ==
    (pc = "done" /\ outcome = "ok") => (Writes("course") = 1 /\ Writes("global") = 1)

\* C8, amended: a completed invocation whose tracking stage runs writes each
\* tracking document once when the file existed before and twice when it did
\* not (the template, then the updated content); one whose tracking stage is
\* skipped writes neither.
C8_WritesPerRun ==
    (pc = "done" /\ outcome = "ok") =>
        IF TrackingStageRuns
        THEN /\ Writes("course") = (IF snap.course = NoFile THEN 2 ELSE 1)
             /\ Writes("global") = (IF snap.global = NoFile THEN 2 ELSE 1)
        ELSE Writes("course") = 0 /\ Writes("global") = 0

\* One document existed before the invocation and the other did not
C8_Witness ==
    /\ pc = "done"
    /\ outcome = "ok"
    /\ Writes("course") = 1
    /\ Writes("global") = 2

\* The stages of generate_summary in the order of its source lines
StageOrder == <<"extract", "detect_context", "find_history",
                "extract_history_context", "build_request", "generate",
                "format", "persist_summary", "update_tracking">>

StageIndex(name) == CHOOSE i \in 1..Len(StageOrder) : StageOrder[i] = name

Ran(name) == \E i \in 1..Len(stageLog) : stageLog[i] = name

TimesRan(name) == Cardinality({i \in 1..Len(stageLog) : stageLog[i] = name})

OptionalStages == {"find_history", "extract_history_context", "update_tracking"}

\* C19: in an invocation that reached its end (completed, or failed in the
\* tracking stage), the history scan ran exactly when history was enabled and
\* a course folder was known, the history context extraction ran exactly
\* when the scan ran and returned at least one file, and the tracking update
\* ran exactly when auto-update was enabled and a course code was known.  No
\* optional stage ran twice, and with any of them skipped the stages from
\* build-request to persist-summary-file each ran once.
C19_OptionalStagesRunWhenEnabled ==
    (pc = "done" /\ failedStage \in {"none", "masters"}) =>
        /\ Ran("find_history") <=> (inp.use_history /\ context.course_folder # "none")
        /\ Ran("extract_history_context") <=> (Ran("find_history") /\ previous # <<>>)
        /\ Ran("update_tracking") <=> (inp.auto_update_masters /\ context.course_code # <<>>)
        /\ \A st \in OptionalStages : TimesRan(st) <= 1
        /\ \A st \in {"build_request", "generate", "format", "persist_summary"} :
              TimesRan(st) = 1

\* A completed invocation that ran the history scan, skipped the history
\* context extraction (no earlier summary) and skipped the tracking update
C19_Witness ==
    /\ pc = "done"
    /\ outcome = "ok"
    /\ Ran("find_history")
    /\ ~Ran("extract_history_context")
    /\ ~Ran("update_tracking")
    /\ inp.auto_update_masters
    /\ Ran("persist_summary")

\* C20: the stages an invocation entered are in the order extract,
\* detect-context, find-history, extract-history-context, build-request,
\* generate, format/validate, persist-summary-file, update-tracking-documents
\* with none entered twice; only optional stages are left out before a stage
\* that was entered; and a stage that failed is the last one entered.
C20_StagesInOrder ==
    /\ \A i, j \in 1..Len(stageLog) :
          i < j => StageIndex(stageLog[i]) < StageIndex(stageLog[j])
    /\ \A j \in 1..Len(stageLog) : \A k \in 1..(StageIndex(stageLog[j]) - 1) :
          StageOrder[k] \notin OptionalStages => Ran(StageOrder[k])
    /\ failedStage # "none" =>
          /\ pc = "done"
          /\ stageLog # <<>>
          /\ stageLog[Len(stageLog)] =
                (CASE failedStage = "history" -> "find_history"
                   [] failedStage = "masters" -> "update_tracking"
                   [] OTHER -> failedStage)

\* A completed invocation that entered all nine stages
C20_Witness ==
    /\ pc = "done"
    /\ outcome = "ok"
    /\ stageLog = StageOrder

\* The master file `name` did not exist when the invocation began and the
\* invocation created it and then wrote the updated content
FirstUse(before, name) ==
    /\ before = NoFile
    /\ \E i \in 1..Len(ioLog) : ioLog[i] = "create_" \o name
    /\ \E i \in 1..Len(ioLog) : ioLog[i] = "write_" \o name

\* C21: when update_masters runs for a course whose course document (and
\* likewise the global document) does not exist, the document is created from
\* the template and updated within the same call, and afterwards it holds
\* exactly one entry and its footer reads a count of 1.
C21_FirstUseOneEntry ==
    /\ (pc \in {"return", "done"} /\ outcome # "error" /\ TrackingStageRuns
            /\ Ran("update_tracking")) =>
          /\ snap.course = NoFile => FirstUse(snap.course, "course")
          /\ snap.global = NoFile => FirstUse(snap.global, "global")
    /\ FirstUse(snap.course, "course") =>
          /\ CountKind(courseDoc, "h3week") = 1
          /\ FooterValues(courseDoc, "readings") = {1}
    /\ FirstUse(snap.global, "global") =>
          /\ CountKind(globalDoc, "gentry") = 1
          /\ FooterValues(globalDoc, "readings") = {1}

\* A completed invocation that found neither document and made both
C21_Witness ==
    /\ pc = "done"
    /\ outcome = "ok"
    /\ FirstUse(snap.course, "course")
    /\ FirstUse(snap.global, "global")
    /\ CountKind(courseDoc, "h3week") = 1
    /\ CountKind(globalDoc, "gentry") = 1

\* The number of entries of a master file, none when the file is absent
Entries(doc, kind) == IF doc = NoFile THEN 0 ELSE CountKind(doc, kind)

\* The entries of a master file, in the order of the lines
EntryLines(doc, kind) ==
    IF doc = NoFile THEN <<>> ELSE SelectSeq(doc, LAMBDA l : l.k = kind)

UpdateSucceeded == pc = "done" /\ outcome = "ok" /\ Ran("update_tracking")

\* C27: each successful update_masters call adds exactly one entry block to
\* the course document and exactly one entry line to the global document,
\* also when an entry for the same reading is already present: the earlier
\* entries stay and the new one follows them.
C27_OneEntryPerCall ==
    UpdateSucceeded =>
        /\ Entries(courseDoc, "h3week") = Entries(snap.course, "h3week") + 1
        /\ Entries(globalDoc, "gentry") = Entries(snap.global, "gentry") + 1
        /\ SubSeq(EntryLines(courseDoc, "h3week"), 1, Entries(snap.course, "h3week"))
              = EntryLines(snap.course, "h3week")
        /\ SubSeq(EntryLines(globalDoc, "gentry"), 1, Entries(snap.global, "gentry"))
              = EntryLines(snap.global, "gentry")

\* The tool was run twice on the same reading and both calls succeeded: two
\* entries for the same week and title
C27_Witness ==
    /\ UpdateSucceeded
    /\ runNo = 2
    /\ Entries(courseDoc, "h3week") = 2
    /\ Entries(globalDoc, "gentry") = 2
    /\ EntryLines(courseDoc, "h3week")[1].s = EntryLines(courseDoc, "h3week")[2].s
    /\ EntryLines(globalDoc, "gentry")[1].s = EntryLines(globalDoc, "gentry")[2].s

\* The file accesses of the invocation on the master file `name`
Touched(name) ==
    \E i \in 1..Len(ioLog) :
        ioLog[i] \in {"create_" \o name, "read_" \o name, "write_" \o name}

CourseWritten == \E i \in 1..Len(ioLog) : ioLog[i] = "write_course"

HasSerial(doc, kind) ==
    doc # NoFile /\ \E i \in 1..Len(doc) : doc[i].k = kind /\ doc[i].n = serial

\* C29: update_masters updates the course document first; when the update
\* of the global document then fails the call raises MasterFileError and the
\* course document keeps the new entry, which the global document lacks;
\* when the update of the course document fails the global document is not
\* touched.
C29_NoRollback ==
    /\ \A i, j \in 1..Len(ioLog) :
          (ioLog[i] \in {"create_global", "read_global", "write_global"}
              /\ ioLog[j] \in {"create_course", "read_course", "write_course"}) => j < i
    /\ (pc = "done" /\ failedStage = "masters") =>
          /\ outcome = "error"
          /\ IF CourseWritten
             THEN /\ HasSerial(courseDoc, "h3week")
                  /\ Entries(courseDoc, "h3week") = Entries(snap.course, "h3week") + 1
                  /\ ~HasSerial(globalDoc, "gentry")
                  /\ Entries(globalDoc, "gentry") = Entries(snap.global, "gentry")
             ELSE /\ ~Touched("global")
                  /\ globalDoc = snap.global
                  /\ ~HasSerial(courseDoc, "h3week")

\* The global update failed at its write, after an earlier invocation had
\* updated both documents
C29_Witness ==
    /\ pc = "done"
    /\ failedStage = "masters"
    /\ CourseWritten
    /\ ioLog[Len(ioLog)] = "read_global"
    /\ Entries(courseDoc, "h3week") = 2
    /\ Entries(globalDoc, "gentry") = 1

InPrevious(r) == \E i \in 1..Len(previous) : previous[i] = r

----------------------------------------------------------------------------
(* ContextDetector.detect_context *)

MaxDepth == 3
MaxPad == 5

UpperSeq == <<"A", "B", "C", "D", "E", "F", "G", "H", "I", "J", "K", "L", "M",
              "N", "O", "P", "Q", "R", "S", "T", "U", "V", "W", "X", "Y", "Z">>

LowerSeq == <<"a", "b", "c", "d", "e", "f", "g", "h", "i", "j", "k", "l", "m",
              "n", "o", "p", "q", "r", "s", "t", "u", "v", "w", "x", "y", "z">>

Digits == {"0", "1", "2", "3", "4", "5", "6", "7", "8", "9"}

Letters == {UpperSeq[i] : i \in 1..Len(UpperSeq)} \cup {LowerSeq[i] : i \in 1..Len(LowerSeq)}

IsLetter(c) == c \in Letters

\* str.upper() and str.lower() of a letter
ToUpper == [c \in Letters |-> UpperSeq[CHOOSE i \in 1..Len(UpperSeq) : c \in {UpperSeq[i], LowerSeq[i]}]]

ToLower == [c \in Letters |-> LowerSeq[CHOOSE i \in 1..Len(LowerSeq) : c \in {UpperSeq[i], LowerSeq[i]}]]

UpperChar(c) == IF c \in Letters THEN ToUpper[c] ELSE c

LowerChar(c) == IF c \in Letters THEN ToLower[c] ELSE c

UpperText(t) == [i \in 1..Len(t) |-> UpperChar(t[i])]

\* str.title() of a word of letters
TitleText(t) == [i \in 1..Len(t) |-> IF i = 1 THEN UpperChar(t[i]) ELSE LowerChar(t[i])]

\* needle in hay
Contains(hay, needle) ==
    \E p \in 1..(Len(hay) - Len(needle) + 1) : SubSeq(hay, p, p + Len(needle) - 1) = needle

\* The number of letters, and of digits, that s has from position p on
LetterRun(s, p) ==
    LET ends == {q \in p..(Len(s) + 1) : q = Len(s) + 1 \/ ~IsLetter(s[q])}
    IN  (CHOOSE q \in ends : \A x \in ends : q <= x) - p

DigitRun(s, p) ==
    LET ends == {q \in p..(Len(s) + 1) : q = Len(s) + 1 \/ s[q] \notin Digits}
    IN  (CHOOSE q \in ends : \A x \in ends : q <= x) - p

Min(a, b) == IF a <= b THEN a ELSE b

NoMatch == [at |-> 0]

\* COURSE_CODE_PATTERN ([A-Z]{3,4})\s?(\d{3,4}), IGNORECASE, tried at position
\* p with n letters in the first group
CourseMatchAt(s, p, n) ==
    LET q == p + n
        d == IF q <= Len(s) /\ s[q] = " " THEN q + 1 ELSE q
        run == IF d <= Len(s) THEN DigitRun(s, d) ELSE 0
    IN  IF p + n - 1 <= Len(s) /\ LetterRun(s, p) >= n /\ run >= 3
        THEN [at |-> p, g1 |-> SubSeq(s, p, q - 1), g2 |-> SubSeq(s, d, d + Min(run, 4) - 1)]
        ELSE NoMatch

\* COURSE_CODE_PATTERN.search(part): the leftmost match, the longer first
\* group preferred
CourseSearch(s) ==
    LET hits == {p \in 1..Len(s) : CourseMatchAt(s, p, 4) # NoMatch \/ CourseMatchAt(s, p, 3) # NoMatch}
        p == FirstMatch(hits)
    IN  IF p = 0 THEN NoMatch
        ELSE IF CourseMatchAt(s, p, 4) # NoMatch THEN CourseMatchAt(s, p, 4)
        ELSE CourseMatchAt(s, p, 3)

\* word[-_\s]?(\d+), IGNORECASE, tried at position p
WordNumberAt(s, p, word) ==
    LET q == p + Len(word)
        d == IF q < Len(s) /\ s[q] \in {"-", "_", " "} /\ s[q + 1] \in Digits THEN q + 1 ELSE q
        run == IF d <= Len(s) THEN DigitRun(s, d) ELSE 0
    IN  IF q - 1 <= Len(s) /\ UpperText(SubSeq(s, p, q - 1)) = UpperText(word) /\ run >= 1
        THEN [at |-> p, g1 |-> SubSeq(s, p, q - 1), g2 |-> SubSeq(s, d, d + run - 1)]
        ELSE NoMatch

WeekWord == <<"w", "e", "e", "k">>

\* WEEK_PATTERN.search(part)
WeekSearch(s) ==
    LET hits == {p \in 1..Len(s) : WordNumberAt(s, p, WeekWord) # NoMatch}
    IN  IF hits = {} THEN NoMatch ELSE WordNumberAt(s, FirstMatch(hits), WeekWord)

ModuleWords == {<<"m", "o", "d", "u", "l", "e">>, <<"u", "n", "i", "t">>,
                <<"s", "e", "c", "t", "i", "o", "n">>}

\* MODULE_PATTERN.search(part)
ModuleSearch(s) ==
    LET hits == {p \in 1..Len(s) : \E w \in ModuleWords : WordNumberAt(s, p, w) # NoMatch}
        p == FirstMatch(hits)
    IN  IF p = 0 THEN NoMatch
        ELSE WordNumberAt(s, p, CHOOSE w \in ModuleWords : WordNumberAt(s, p, w) # NoMatch)

\* lines 80-87; dir is the number of parts of Path(*parts[: len(parts) - i])
SetCourse(part, dir, ctx) ==
    LET cm == CourseSearch(part)
    IN  IF ctx.course_code = <<>> /\ cm # NoMatch
        THEN [ctx EXCEPT !.course_code = cm.g1 \o cm.g2, !.course_name = part,
                         !.course_folder = dir]
        ELSE ctx

\* lines 90-94 mutated: every matching segment overwrites the week
SetWeekOverwritten(part, ctx) ==
    LET wm == WeekSearch(part)
    IN  IF wm # NoMatch THEN [ctx EXCEPT !.week = wm.g2] ELSE ctx

\* lines 90-94
SetWeek(part, ctx) ==
    LET wm == WeekSearch(part)
    IN  IF ctx.week = <<>> /\ wm # NoMatch THEN [ctx EXCEPT !.week = wm.g2] ELSE ctx

\* lines 97-101
SetModule(part, ctx) ==
    LET mm == ModuleSearch(part)
    IN  IF ctx.module = <<>> /\ mm # NoMatch
        THEN [ctx EXCEPT !.module = TitleText(mm.g1) \o <<" ">> \o mm.g2]
        ELSE ctx

\* The body of the loop for one segment, lines 78-101
ScanSegment(part, dir, ctx) == SetModule(part, SetWeek(part, SetCourse(part, dir, ctx)))

\* The loop of lines 74-105 from reversed index i on: the file (i = 0) is
\* skipped, and the loop ends once course code and week are both set.  c is
\* the context after the body of the loop has run for the part of index i.
RECURSIVE Scan(_, _, _)
Scan(parts, i, ctx) ==
    IF i > Len(parts) - 1 THEN ctx
    ELSE CHOOSE result \in
             {IF c.course_code # <<>> /\ c.week # <<>> THEN c ELSE Scan(parts, i + 1, c) :
                 c \in {ScanSegment(parts[Len(parts) - i], Len(parts) - i, ctx)}} : TRUE

\* Path.name: the root's name is empty
NameOf(parts, dir) == IF dir = 1 THEN <<>> ELSE parts[dir]

\* for _ in range(5)
FindLevels == 5

\* _find_course_folder mutated: the names are compared as they are written
FindCourseFolderCaseSensitive(parts, course_code) ==
    LET tried == {dir \in 1..(Len(parts) - 1) : dir >= Len(parts) - FindLevels}
        hits == {dir \in tried : Contains(NameOf(parts, dir), course_code)}
    IN  IF hits = {} THEN 0 ELSE CHOOSE dir \in hits : \A x \in hits : x <= dir

\* _find_course_folder, lines 143-163: the file's parent, then up to four
\* directories above it, the walk ending at the root
FindCourseFolder(parts, course_code) ==
    LET tried == {dir \in 1..(Len(parts) - 1) : dir >= Len(parts) - FindLevels}
        hits == {dir \in tried : Contains(UpperText(NameOf(parts, dir)), UpperText(course_code))}
    IN  IF hits = {} THEN 0 ELSE CHOOSE dir \in hits : \A x \in hits : x <= dir

\* lines 112-117
FallbackFolder(parts) == IF Len(parts) >= 3 THEN Len(parts) - 2 ELSE Len(parts) - 1

\* detect_context, lines 51-117
DetectContextOf(parts, course_override, week_override) ==
    LET c0 == [EmptyContext EXCEPT !.course_code = course_override,
                                   !.course_name = course_override,
                                   !.week = week_override]
        c1 == Scan(parts, 1, c0)
        c2 == IF c1.course_folder = 0 /\ c1.course_code # <<>>
              THEN [c1 EXCEPT !.course_folder = FindCourseFolder(parts, c1.course_code)]
              ELSE c1
    IN  IF c2.course_folder = 0
        THEN [c2 EXCEPT !.course_folder = FallbackFolder(parts)]
        ELSE c2

\* Folder names
SegPSYCH101 == <<"P", "S", "Y", "C", "H", "1", "0", "1">>
SegWeek3 == <<"W", "e", "e", "k", "3">>
SegWeek5 == <<"w", "e", "e", "k", "_", "5">>
SegModule2 == <<"M", "o", "d", "u", "l", "e", "2">>
SegDocs == <<"d", "o", "c", "s">>

Segments == {SegPSYCH101, CodeABC101, SegWeek3, SegWeek5, SegModule2, SegDocs}

RootPart == <<"/">>
FilePart == <<"a", ".", "p", "d", "f">>

\* Path(pdf_path).resolve().parts: up to MaxDepth folders of any name, then
\* up to MaxPad plain folders, then the file
DirLists == UNION {[1..n -> Segments] : n \in 0..MaxDepth}

Pads == {[i \in 1..n |-> SegDocs] : n \in 0..MaxPad}

CourseOverrides == {<<>>, Codeabc101, CodeXYZ200}
WeekOverrides == {<<>>, <<"7">>}

InitDetect ==
    /\ FreshDocs /\ IdleRun /\ IdleHist /\ IdleApi /\ IdleParse /\ IdlePdf /\ IdleMore
    /\ \E dirs \in DirLists, pad \in Pads :
         detParts = <<RootPart>> \o dirs \o pad \o <<FilePart>>
    /\ courseOverride \in CourseOverrides
    /\ weekOverride \in WeekOverrides
    /\ detResult = EmptyContext
    /\ detPc = "start"

Detect ==
    /\ detPc = "start"
    /\ detResult' = DetectContextOf(detParts, courseOverride, weekOverride)
    /\ detPc' = "done"
    /\ UNCHANGED <<detParts, courseOverride, weekOverride, docVars, runVars,
                   histVars, apiVars, parseVars, pdfVars, moreVars>>

NextDetect == Detect

SpecDetect == InitDetect /\ [][NextDetect]_vars

\* The directories of the path, nearest the file first excluded: indices of
\* detParts between the root and the file
Dirs == 2..(Len(detParts) - 1)

CourseDirs == {k \in Dirs : CourseSearch(detParts[k]) # NoMatch}

WeekDirs == {k \in Dirs : WeekSearch(detParts[k]) # NoMatch}

Nearest(ks) == CHOOSE k \in ks : \A x \in ks : x <= k

\* The value detect_context gives the path with no override
Undirected == DetectContextOf(detParts, <<>>, <<>>)

\* C12: an override sets its own slot, and every slot that is not overridden
\* (the other of course code and week, and the module) has the value that
\* detect_context gives the same path with no override.
C12_OverrideOnlyOwnSlot ==
    (detPc = "done") =>
        /\ detResult.course_code = (IF courseOverride # <<>> THEN courseOverride
                                    ELSE Undirected.course_code)
        /\ detResult.week = (IF weekOverride # <<>> THEN weekOverride ELSE Undirected.week)
        /\ detResult.module = Undirected.module

\* The code word a match lies in: the match with the letters that precede it
\* in the folder name ("PSYCH101" for the match "SYCH101")
CodeWord(s, m) ==
    LET starts == {p \in 1..m.at : \A q \in p..m.at : IsLetter(s[q])}
    IN  SubSeq(s, CHOOSE p \in starts : \A x \in starts : p <= x, m.at - 1) \o m.g1 \o m.g2

\* C13: with no overrides, for a path with at least one folder that matches
\* the course-code pattern, detect_context returns the course code of the
\* matching folder nearest the file (for .../PSYCH101/Week3/a.pdf the code
\* PSYCH101) and that folder as course_folder.
C13_NearestCourseFolderWins ==
    (detPc = "done" /\ courseOverride = <<>> /\ weekOverride = <<>> /\ CourseDirs # {}) =>
        LET k == Nearest(CourseDirs)
        IN  /\ detResult.course_code = CodeWord(detParts[k], CourseSearch(detParts[k]))
            /\ detResult.course_folder = k

\* C14: with no week override, for a path with folders that match the week
\* pattern, detect_context returns the number of the matching folder nearest
\* the file, wherever the course-code folder lies and whether or not the
\* course code is overridden.
C14_NearestWeekWins ==
    (detPc = "done" /\ weekOverride = <<>> /\ WeekDirs # {}) =>
        detResult.week = WeekSearch(detParts[Nearest(WeekDirs)]).g2

\* Two week folders, the course-code folder between them
C14_Witness ==
    /\ detPc = "done"
    /\ weekOverride = <<>>
    /\ courseOverride = <<>>
    /\ \E a, b \in WeekDirs, c \in CourseDirs :
          /\ a < c /\ c < b
          /\ WeekSearch(detParts[a]).g2 # WeekSearch(detParts[b]).g2
          /\ detResult.week = WeekSearch(detParts[b]).g2
          /\ detResult.course_folder = c

\* The directories _find_course_folder may return for a code
NamedDirs(code) ==
    {k \in 1..(Len(detParts) - 1) :
        /\ k >= Len(detParts) - FindLevels
        /\ Contains(UpperText(NameOf(detParts, k)), UpperText(code))}

\* C15: for every path and every combination of overrides course_folder is a
\* directory of the path: the folder the course code was detected in; else,
\* with an overriding course code, the nearest of the file's parent and the
\* four directories above it whose name contains the code, letter case
\* ignored; else the file's grandparent when the path has at least 3 parts,
\* else its parent.  Course code and week may each be absent.
C15_CourseFolderAlwaysSet ==
    (detPc = "done") =>
        /\ detResult.course_folder \in 1..(Len(detParts) - 1)
        /\ detResult.course_folder =
             (IF courseOverride = <<>> /\ CourseDirs # {} THEN Nearest(CourseDirs)
              ELSE IF courseOverride # <<>> /\ NamedDirs(courseOverride) # {}
                   THEN Nearest(NamedDirs(courseOverride))
              ELSE IF Len(detParts) >= 3 THEN Len(detParts) - 2
              ELSE Len(detParts) - 1)

\* An overriding code whose folder lies beyond the fifth level: the
\* grandparent is taken, and the week is absent
C15_Witness ==
    /\ detPc = "done"
    /\ courseOverride = Codeabc101
    /\ Len(detParts) >= FindLevels + 3
    /\ CourseDirs = {2}
    /\ detParts[2] = CodeABC101
    /\ detResult.course_folder = Len(detParts) - 2
    /\ detResult.week = <<>>
    /\ detResult.course_code = Codeabc101

----------------------------------------------------------------------------
(* HistoryManager.extract_context_from_summaries *)

MaxBatch == 2

\* Values of the parsed data: a text, an integer, or None
Str(v) == [t |-> "str", v |-> v]
Num(n) == [t |-> "int", v |-> n]
Null == [t |-> "null"]

\* What yaml.safe_load makes of the value written after "key:"; a key may
\* also be missing from the block
WeekValues == {Null, Str("three"), Num(3)}
TitleValues == {Null, Str("Paper")}
AuthorValues == {Str("Smith")}

FrontKeys == {"week", "title", "author"}

ValuesOf(key) ==
    CASE key = "week" -> WeekValues
      [] key = "title" -> TitleValues
      [] OTHER -> AuthorValues

\* The mappings a front matter block can hold
Mappings ==
    UNION {{m \in [keys -> WeekValues \cup TitleValues \cup AuthorValues] :
               \A k \in keys : m[k] \in ValuesOf(k)} : keys \in SUBSET FrontKeys}

\* A summary file: whether read_text succeeds; its front matter (no block,
\* a block that is not YAML, a block holding a plain text, a block holding a
\* mapping, the empty mapping standing for the empty block); whether it
\* has the thesis section
FileKinds ==
    [readable : {FALSE}, front : {"none"}, map : {<<>>}, section : {FALSE}]
    \cup [readable : {TRUE}, front : {"none", "malformed", "scalar"}, map : {<<>>},
          section : BOOLEAN]
    \cup [readable : {TRUE}, front : {"mapping"}, map : Mappings, section : BOOLEAN]

NoRecord == [t |-> "null"]

\* _extract_frontmatter, lines 148-169: no match gives {}, YAMLError gives
\* {}, otherwise what safe_load returns (or {} when that is falsy)
ExtractFrontmatter(file) ==
    CASE file.front = "mapping" -> [t |-> "dict", v |-> file.map]
      [] file.front = "scalar" -> Str("text")
      [] OTHER -> [t |-> "dict", v |-> <<>>]

\* dict.get(key, default): the default is used only when the key is missing
Get(dict, key, default) == IF key \in DOMAIN dict THEN dict[key] ELSE default

\* _extract_thesis, lines 171-194, and _extract_key_concepts, lines 196-230
ExtractThesis(file) == IF file.section THEN Str("thesis") ELSE Str("")

ExtractKeyConcepts(file) == IF file.section THEN <<"concept">> ELSE <<>>

\* _parse_summary_file, lines 112-146: any exception (read_text failing,
\* .get on a front matter that is not a mapping) gives None
ParseSummaryFile(file, stem) ==
    LET frontmatter == ExtractFrontmatter(file)
    IN  IF ~file.readable \/ frontmatter.t # "dict" THEN NoRecord
        ELSE [t |-> "dict",
              week |-> Get(frontmatter.v, "week", Str("Unknown")),
              title |-> Get(frontmatter.v, "title", Str(stem)),
              author |-> Get(frontmatter.v, "author", Str("Unknown")),
              thesis |-> ExtractThesis(file),
              key_concepts |-> ExtractKeyConcepts(file)]

Stems == <<"s1", "s2", "s3", "s4">>

FileLists == UNION {[1..n -> FileKinds] : n \in 0..MaxBatch}

InitParse ==
    /\ FreshDocs /\ IdleRun /\ IdleHist /\ IdleApi /\ IdleDetect /\ IdlePdf /\ IdleMore
    /\ parseFiles \in FileLists
    /\ parsePos = 1
    /\ contexts = <<>>
    /\ parsedFrom = <<>>
    /\ parsePc = "loop"

\* The loop body mutated: the first file that fails ends the loop
ParseFileStopsAtFailure ==
    /\ parsePc = "loop"
    /\ parsePos <= Len(parseFiles)
    /\ LET parsed == ParseSummaryFile(parseFiles[parsePos], Stems[parsePos])
       IN  IF parsed # NoRecord
           THEN /\ contexts' = Append(contexts, parsed)
                /\ parsedFrom' = Append(parsedFrom, parsePos)
                /\ parsePos' = parsePos + 1
           ELSE /\ parsePos' = Len(parseFiles) + 1
                /\ UNCHANGED <<contexts, parsedFrom>>
    /\ UNCHANGED <<parseFiles, parsePc, docVars, runVars, histVars, apiVars, detVars, pdfVars, moreVars>>

\* One iteration of the loop, lines 101-108
ParseFile ==
    /\ parsePc = "loop"
    /\ parsePos <= Len(parseFiles)
    /\ LET parsed == ParseSummaryFile(parseFiles[parsePos], Stems[parsePos])
       IN  IF parsed # NoRecord
           THEN /\ contexts' = Append(contexts, parsed)
                /\ parsedFrom' = Append(parsedFrom, parsePos)
           ELSE UNCHANGED <<contexts, parsedFrom>>
    /\ parsePos' = parsePos + 1
    /\ UNCHANGED <<parseFiles, parsePc, docVars, runVars, histVars, apiVars, detVars, pdfVars, moreVars>>

\* lines 94-95 and 110
ParseReturn ==
    /\ parsePc = "loop"
    /\ parsePos > Len(parseFiles)
    /\ parsePc' = "returned"
    /\ UNCHANGED <<parseFiles, parsePos, contexts, parsedFrom, docVars, runVars,
                   histVars, apiVars, detVars, pdfVars, moreVars>>

NextParse == ParseFile \/ ParseReturn

SpecParse == InitParse /\ [][NextParse]_vars

\* C16: every record the parser returns has text values for week, title,
\* author and thesis and a list for key_concepts, whatever the front matter
\* holds (no block, a malformed block, missing keys, keys with empty values).
C16_RecordFieldsAreTexts ==
    \A i \in 1..Len(contexts) :
        /\ contexts[i].week.t = "str"
        /\ contexts[i].title.t = "str"
        /\ contexts[i].author.t = "str"
        /\ contexts[i].thesis.t = "str"
        /\ DOMAIN contexts[i].key_concepts = 1..Len(contexts[i].key_concepts)

\* A file parses when it can be read and its front matter, if it has one,
\* is a mapping or is not YAML
Parses(file) == file.readable /\ file.front # "scalar"

\* C17: extract_context_from_summaries does not raise; the records it
\* returns are those of the files that parse, one each, in the order of
\* summary_paths, the files that fail being skipped.
C17_OneRecordPerParsableFile ==
    /\ parsePc # "raised"
    /\ (parsePc = "returned") =>
          /\ \A i \in 1..Len(parseFiles) :
                Parses(parseFiles[i]) <=> \E j \in 1..Len(parsedFrom) : parsedFrom[j] = i
          /\ \A a, b \in 1..Len(parsedFrom) : a < b => parsedFrom[a] < parsedFrom[b]
          /\ Len(contexts) = Len(parsedFrom)
          /\ \A j \in 1..Len(contexts) :
                contexts[j] = ParseSummaryFile(parseFiles[parsedFrom[j]], Stems[parsedFrom[j]])

\* A file that cannot be read, followed by one that parses
C17_Witness ==
    /\ parsePc = "returned"
    /\ Len(parseFiles) >= 2
    /\ ~parseFiles[1].readable
    /\ Parses(parseFiles[2])
    /\ parsedFrom = <<2>>
    /\ contexts[1].title = Str("s2")

----------------------------------------------------------------------------
(* PDFExtractor *)

\* The fields of Settings, config.py lines 19-65
SettingsFields == {"openrouter_api_key", "model_name", "temperature", "max_tokens",
                   "request_timeout", "max_pages", "extraction_timeout",
                   "enable_history", "max_previous_summaries", "global_master_path",
                   "auto_update_masters", "log_level", "log_file"}

\* The path given, what each method makes of the file, and whether the
\* environment sets ENABLE_OCR=true
PdfInputs == [file : {"missing", "directory", "file"},
              pdfplumber : {"text", "empty", "raises"},
              pypdf : {"text", "empty", "raises"},
              ocr : {"text", "raises"},
              enable_ocr_env : BOOLEAN]

Returned(method) == [kind |-> "text", by |-> method]

Raised(type) == [kind |-> "raised", type |-> type]

InitPdf ==
    /\ FreshDocs /\ IdleRun /\ IdleHist /\ IdleApi /\ IdleDetect /\ IdleParse /\ IdleMore
    /\ pdfIn \in PdfInputs
    /\ pdfPc = "new"
    /\ pdfResult = NoResult

\* __init__, lines 44-59
PdfConstruct ==
    /\ pdfPc = "new"
    /\ IF pdfIn.file = "file"
       THEN pdfPc' = "pdfplumber" /\ UNCHANGED pdfResult
       ELSE pdfPc' = "done" /\ pdfResult' = Raised("PDFExtractionError")
    /\ UNCHANGED <<pdfIn, docVars, runVars, histVars, apiVars, detVars, parseVars, moreVars>>

\* extract, lines 73-79
TryPdfplumber ==
    /\ pdfPc = "pdfplumber"
    /\ IF pdfIn.pdfplumber = "text"
       THEN pdfPc' = "done" /\ pdfResult' = Returned("pdfplumber")
       ELSE pdfPc' = "pypdf" /\ UNCHANGED pdfResult
    /\ UNCHANGED <<pdfIn, docVars, runVars, histVars, apiVars, detVars, parseVars, moreVars>>

\* extract, lines 82-88
TryPypdf ==
    /\ pdfPc = "pypdf"
    /\ IF pdfIn.pypdf = "text"
       THEN pdfPc' = "done" /\ pdfResult' = Returned("pypdf")
       ELSE pdfPc' = "ocr" /\ UNCHANGED pdfResult
    /\ UNCHANGED <<pdfIn, docVars, runVars, histVars, apiVars, detVars, parseVars, moreVars>>

\* extract, lines 91-109: settings.enable_ocr is read outside any try block,
\* and reading an attribute that Settings does not define raises
\* AttributeError
OcrFallback ==
    /\ pdfPc = "ocr"
    /\ pdfPc' = "done"
    /\ pdfResult' =
         IF "enable_ocr" \notin SettingsFields THEN Raised("AttributeError")
         ELSE IF pdfIn.enable_ocr_env /\ pdfIn.ocr = "text" THEN Returned("ocr")
         ELSE Raised("PDFExtractionError")
    /\ UNCHANGED <<pdfIn, docVars, runVars, histVars, apiVars, detVars, parseVars, moreVars>>

NextPdf == PdfConstruct \/ TryPdfplumber \/ TryPypdf \/ OcrFallback

SpecPdf == InitPdf /\ [][NextPdf]_vars

\* C18: extraction returns the result of the first of pdfplumber, pypdf and
\* OCR that gives a non-empty text, and otherwise ends with
\* PDFExtractionError, never with an exception of another type.
C18_FirstTextOrExtractionError ==
    (pdfPc = "done") =>
        /\ pdfResult.kind \in {"text", "raised"}
        /\ pdfResult.kind = "raised" => pdfResult.type = "PDFExtractionError"
        /\ pdfResult.kind = "text" =>
             /\ pdfResult.by = "pdfplumber" => pdfIn.pdfplumber = "text"
             /\ pdfResult.by = "pypdf" => pdfIn.pdfplumber # "text" /\ pdfIn.pypdf = "text"
             /\ pdfResult.by = "ocr" =>
                  pdfIn.pdfplumber # "text" /\ pdfIn.pypdf # "text" /\ pdfIn.ocr = "text"

----------------------------------------------------------------------------
(* A summary document written by the output formatter and parsed again by   *)
(* HistoryManager._parse_summary_file.  core/output_formatter.py is not     *)
(* part of the sources: the writer is taken from the description of the     *)
(* persisted summary file (a front-matter block with week, title and        *)
(* author, then the numbered sections with their labels).  Texts are tuples *)
(* of one-character strings.                                                *)

MaxThesis == 3

ThesisChars == {"a", " ", "_", "*"}

WeekTexts == {<<"3">>, <<"1", "2">>, <<"W", "3">>}

TitleTexts == {<<"P">>, <<"P", ":", " ", "Q">>}

AuthorTexts == {<<"S">>}

\* A thesis is a sentence: it has a character that is not a blank
ThesisTexts ==
    {t \in UNION {[1..n -> ThesisChars] : n \in 1..MaxThesis} :
        \E i \in 1..Len(t) : t[i] # " "}

\* The front matter values are written either as plain scalars (an f-string)
\* or as quoted scalars (a YAML dumper)
Styles == {"plain", "quoted"}

RoundInputs == [week : WeekTexts, title : TitleTexts, author : AuthorTexts,
                thesis : ThesisTexts, style : Styles]

Quoted(text) == <<"'">> \o text \o <<"'">>

\* The document: the key/value lines of the front-matter block, and the
\* text that follows "- **Central Argument**: " in section II up to the end
\* of the line (prompt_templates.py lines 88-90 give the section and label)
FormatSummary(in) ==
    LET scalar(text) == IF in.style = "quoted" THEN Quoted(text) ELSE text
    IN  [front |-> << [key |-> "week", text |-> scalar(in.week)],
                      [key |-> "title", text |-> scalar(in.title)],
                      [key |-> "author", text |-> scalar(in.author)] >>,
         central |-> in.thesis]

IsQuoted(text) == Len(text) >= 2 /\ text[1] = "'" /\ text[Len(text)] = "'"

DigitSeq == <<"0", "1", "2", "3", "4", "5", "6", "7", "8", "9">>

DigitValue(c) == (CHOOSE i \in 1..Len(DigitSeq) : DigitSeq[i] = c) - 1

RECURSIVE DecimalValue(_)
DecimalValue(text) ==
    IF Len(text) = 0 THEN 0
    ELSE 10 * DecimalValue(SubSeq(text, 1, Len(text) - 1)) + DigitValue(text[Len(text)])

\* yaml.safe_load on a scalar: a quoted scalar is a str, a plain scalar of
\* decimal digits (no leading zero) is an int, another plain scalar a str
YamlScalar(text) ==
    IF IsQuoted(text) THEN Str(SubSeq(text, 2, Len(text) - 1))
    ELSE IF \A i \in 1..Len(text) : text[i] \in Digits THEN Num(DecimalValue(text))
    ELSE Str(text)

\* A plain scalar that holds ": " makes the block invalid YAML ("mapping
\* values are not allowed here")
YamlError(front) ==
    \E i \in 1..Len(front) :
        ~IsQuoted(front[i].text) /\ Contains(front[i].text, <<":", " ">>)

\* The document as _extract_frontmatter and the section regexes see it
FileOf(doc) ==
    [readable |-> TRUE,
     front |-> IF YamlError(doc.front) THEN "malformed" ELSE "mapping",
     map |-> IF YamlError(doc.front) THEN <<>>
             ELSE [k \in {doc.front[i].key : i \in 1..Len(doc.front)} |->
                     YamlScalar((CHOOSE l \in {doc.front[i] : i \in 1..Len(doc.front)} :
                                    l.key = k).text)],
     section |-> TRUE]

\* str.strip() for blanks
Strip(text) ==
    LET solid == {i \in 1..Len(text) : text[i] # " "}
    IN  IF solid = {} THEN <<>>
        ELSE SubSeq(text, CHOOSE i \in solid : \A j \in solid : i <= j,
                          CHOOSE i \in solid : \A j \in solid : j <= i)

\* re.sub(r"\*\*|\*|__|_", "", thesis): every asterisk and every underscore
\* is removed
RemoveMarkup(text) == SelectSeq(text, LAMBDA c : c \notin {"*", "_"})

\* _extract_thesis, lines 182-192: the text after the label up to the line
\* break, stripped, then with the markup characters removed
ExtractThesisText(central) == RemoveMarkup(Strip(central))

\* _parse_summary_file on the written document
ParseDocument(doc, stem) ==
    LET parsed == ParseSummaryFile(FileOf(doc), stem)
    IN  [week |-> parsed.week, title |-> parsed.title, author |-> parsed.author,
         thesis |-> Str(ExtractThesisText(doc.central))]

InitRound ==
    /\ FreshDocs /\ IdleRun /\ IdleHist /\ IdleApi
    /\ IdleDetect /\ IdleParse /\ IdlePdf /\ IdleEntry /\ IdleWriters
    /\ rtIn \in RoundInputs
    /\ rtDoc = <<>>
    /\ rtRec = <<>>
    /\ rtPc = "start"

\* The formatter writes the summary file
WriteDocument ==
    /\ rtPc = "start"
    /\ rtDoc' = FormatSummary(rtIn)
    /\ rtPc' = "written"
    /\ UNCHANGED <<rtIn, rtRec, entVars, wVars>>
    /\ UNCHANGED <<docVars, runVars, histVars, apiVars, detVars, parseVars, pdfVars>>

\* A later invocation parses it
ParseWritten ==
    /\ rtPc = "written"
    /\ rtRec' = ParseDocument(rtDoc, "stem")
    /\ rtPc' = "parsed"
    /\ UNCHANGED <<rtIn, rtDoc, entVars, wVars>>
    /\ UNCHANGED <<docVars, runVars, histVars, apiVars, detVars, parseVars, pdfVars>>

NextRound == WriteDocument \/ ParseWritten

SpecRound == InitRound /\ [][NextRound]_vars

\* C22: a summary document in the emitted shape, parsed by the history
\* parser, yields a record with the week, title, author and thesis that were
\* given to the generate step.
C22_RoundTrip ==
    (rtPc = "parsed") =>
        /\ rtRec.week = Str(rtIn.week)
        /\ rtRec.title = Str(rtIn.title)
        /\ rtRec.author = Str(rtIn.author)
        /\ rtRec.thesis = Str(rtIn.thesis)

----------------------------------------------------------------------------
(* The path recorded in an entry.  A path is the tuple of its parts, "/"    *)
(* first for an absolute path, as pathlib's Path.parts gives them.          *)

MaxPathDepth == 3

DirNames == {"c", "w", "o"}

\* summarizer.py line 132 and context_detector.py line 28: both paths are
\* resolved, so absolute
FolderPaths == {<<"/">> \o ds : ds \in UNION {[1..n -> DirNames] : n \in 1..2}}

SummaryPaths ==
    {<<"/">> \o ds \o <<"s.md">> : ds \in UNION {[1..n -> DirNames] : n \in 0..MaxPathDepth}}

EntryInputs == [course_folder : FolderPaths, summary_path : SummaryPaths]

IsAbsolute(path) == Len(path) > 0 /\ path[1] = "/"

\* Path.name
NameOfPath(path) == <<path[Len(path)]>>

\* The path lies under the folder: Path.relative_to does not raise ValueError
IsUnder(path, base) == IsPrefix(base, path)

\* _format_course_entry mutated: the bare file name in every case
CourseEntryPathNameOnly(summary_path, course_folder) == NameOfPath(summary_path)

\* _format_course_entry, lines 225-229
CourseEntryPath(summary_path, course_folder) ==
    IF IsUnder(summary_path, course_folder)
    THEN SubSeq(summary_path, Len(course_folder) + 1, Len(summary_path))
    ELSE NameOfPath(summary_path)

\* _format_global_entry, lines 259-261: Path(summary_path), as it was given
GlobalEntryPath(summary_path) == summary_path

InitEntry ==
    /\ FreshDocs /\ IdleRun /\ IdleHist /\ IdleApi
    /\ IdleDetect /\ IdleParse /\ IdlePdf /\ IdleRound /\ IdleWriters
    /\ entIn \in EntryInputs
    /\ entOut = <<>>
    /\ entPc = "start"

\* update_masters formats the two entries of one reading
FormatEntries ==
    /\ entPc = "start"
    /\ entOut' = [course |-> CourseEntryPath(entIn.summary_path, entIn.course_folder),
                  global |-> GlobalEntryPath(entIn.summary_path)]
    /\ entPc' = "done"
    /\ UNCHANGED <<entIn, rtVars, wVars>>
    /\ UNCHANGED <<docVars, runVars, histVars, apiVars, detVars, parseVars, pdfVars>>

NextEntry == FormatEntries

SpecEntry == InitEntry /\ [][NextEntry]_vars

\* The path relative to the course folder when the summary lies under it,
\* the bare file name otherwise
RelativeOrName(recorded) ==
    /\ IsUnder(entIn.summary_path, entIn.course_folder) =>
          entIn.course_folder \o recorded = entIn.summary_path
    /\ ~IsUnder(entIn.summary_path, entIn.course_folder) =>
          recorded = NameOfPath(entIn.summary_path)
    /\ ~IsAbsolute(recorded)

\* C23, as claimed: in the course entry and in the global entry the recorded
\* path is the path relative to the course folder when the summary lies under
\* the course folder and the bare file name otherwise, never an absolute path.
C23_RecordedPathRelative ==
    (entPc = "done") => (RelativeOrName(entOut.course) /\ RelativeOrName(entOut.global))

\* C23, amended: the course entry records the path relative to the course
\* folder when the summary lies under it and the bare file name otherwise,
\* never an absolute path; the global entry records the summary path as it
\* was given, which is the resolved, absolute path.
C23_CourseRelativeGlobalAsGiven ==
    (entPc = "done") =>
        /\ RelativeOrName(entOut.course)
        /\ entOut.global = entIn.summary_path
        /\ IsAbsolute(entOut.global)

\* A summary in a week folder of the course folder
C23_Witness ==
    /\ entPc = "done"
    /\ IsUnder(entIn.summary_path, entIn.course_folder)
    /\ entOut.course = <<"w", "s.md">>
    /\ entOut.global = entIn.course_folder \o <<"w", "s.md">>

----------------------------------------------------------------------------
(* Two invocations of update_masters on the same course: both work on the   *)
(* same course master file and the same global master file.  Each call of   *)
(* exists(), write_text() and read_text() is one step.                      *)

\* The two invocations
Writers == {1, 2}

\* A master file that an earlier invocation left behind, with one entry
EarlierData == [week |-> "1", title |-> "Paper"]

EarlierCourseDoc == UpdatedCourseContent(CourseTemplate(TheCourse, 1), EarlierData, 1, 0)

EarlierGlobalDoc == UpdatedGlobalContent(GlobalTemplate(1), TheCourse, EarlierData, 1, 0)

Event(w, op, doc, content) == [w |-> w, op |-> op, doc |-> doc, content |-> content]

InitWriters ==
    /\ IdleRun /\ IdleHist /\ IdleApi
    /\ IdleDetect /\ IdleParse /\ IdlePdf /\ IdleRound /\ IdleEntry
    /\ courseDoc \in {NoFile, EarlierCourseDoc}
    /\ globalDoc \in {NoFile, EarlierGlobalDoc}
    /\ today = 1
    /\ serial = 0
    /\ owner = <<>>
    /\ lastOp = "none"
    /\ manualEdits = 0
    /\ wPc = [w \in Writers |-> "course_exists"]
    /\ wBuf = [w \in Writers |-> NoFile]
    /\ wData \in [Writers -> SummaryData]
    /\ wLog = <<>>

WriterFrame ==
    /\ UNCHANGED <<today, serial, owner, lastOp, manualEdits, wData>>
    /\ UNCHANGED <<runVars, histVars, apiVars, detVars, parseVars, pdfVars, rtVars, entVars>>

\* _update_course_master, line 84: if not self.course_master_path.exists()
CourseExists(w) ==
    /\ wPc[w] = "course_exists"
    /\ wPc' = [wPc EXCEPT ![w] = IF courseDoc = NoFile THEN "course_create" ELSE "course_read"]
    /\ wLog' = Append(wLog, Event(w, "exists", "course", courseDoc))
    /\ UNCHANGED <<courseDoc, globalDoc, wBuf>>
    /\ WriterFrame

\* line 85: _create_course_master writes the template
CourseCreate(w) ==
    /\ wPc[w] = "course_create"
    /\ courseDoc' = CourseTemplate(TheCourse, today)
    /\ wPc' = [wPc EXCEPT ![w] = "course_read"]
    /\ wLog' = Append(wLog, Event(w, "create", "course", courseDoc'))
    /\ UNCHANGED <<globalDoc, wBuf>>
    /\ WriterFrame

\* line 88: content = self.course_master_path.read_text()
CourseRead(w) ==
    /\ wPc[w] = "course_read"
    /\ wBuf' = [wBuf EXCEPT ![w] = courseDoc]
    /\ wPc' = [wPc EXCEPT ![w] = "course_write"]
    /\ wLog' = Append(wLog, Event(w, "read", "course", courseDoc))
    /\ UNCHANGED <<courseDoc, globalDoc>>
    /\ WriterFrame

\* The write mutated: the entry is inserted into the content that was read,
\* the footer counter is taken from the file as it is at the write
CourseWriteFooterFromFile(w) ==
    /\ wPc[w] = "course_write"
    /\ LET body == CourseInsert(wBuf[w], FormatCourseEntry(wData[w], today, w))
       IN  courseDoc' = [i \in 1..Len(body) |->
                            IF body[i].k = "readings"
                            THEN Line("readings", body[i].s, CountKind(courseDoc, "h3week") + 1)
                            ELSE body[i]]
    /\ wPc' = [wPc EXCEPT ![w] = "global_exists"]
    /\ wLog' = Append(wLog, Event(w, "write", "course", courseDoc'))
    /\ UNCHANGED <<globalDoc, wBuf>>
    /\ WriterFrame

\* The write mutated: the file is read again at the write and the entry is
\* added to what it holds then
CourseWriteRereads(w) ==
    /\ wPc[w] = "course_write"
    /\ courseDoc' = UpdatedCourseContent(courseDoc, wData[w], today, w)
    /\ wPc' = [wPc EXCEPT ![w] = "global_exists"]
    /\ wLog' = Append(wLog, Event(w, "write", "course", courseDoc'))
    /\ UNCHANGED <<globalDoc, wBuf>>
    /\ WriterFrame

\* lines 89-110: the entry and the footer are computed from the content that
\* was read, and the file is rewritten as a whole
CourseWrite(w) ==
    /\ wPc[w] = "course_write"
    /\ courseDoc' = UpdatedCourseContent(wBuf[w], wData[w], today, w)
    /\ wPc' = [wPc EXCEPT ![w] = "global_exists"]
    /\ wLog' = Append(wLog, Event(w, "write", "course", courseDoc'))
    /\ UNCHANGED <<globalDoc, wBuf>>
    /\ WriterFrame

\* _update_global_master, line 128: if not self.global_master_path.exists()
GlobalExists(w) ==
    /\ wPc[w] = "global_exists"
    /\ wPc' = [wPc EXCEPT ![w] = IF globalDoc = NoFile THEN "global_create" ELSE "global_read"]
    /\ wLog' = Append(wLog, Event(w, "exists", "global", globalDoc))
    /\ UNCHANGED <<courseDoc, globalDoc, wBuf>>
    /\ WriterFrame

\* line 129: _create_global_master writes the template
GlobalCreate(w) ==
    /\ wPc[w] = "global_create"
    /\ globalDoc' = GlobalTemplate(today)
    /\ wPc' = [wPc EXCEPT ![w] = "global_read"]
    /\ wLog' = Append(wLog, Event(w, "create", "global", globalDoc'))
    /\ UNCHANGED <<courseDoc, wBuf>>
    /\ WriterFrame

\* line 132: content = self.global_master_path.read_text()
GlobalRead(w) ==
    /\ wPc[w] = "global_read"
    /\ wBuf' = [wBuf EXCEPT ![w] = globalDoc]
    /\ wPc' = [wPc EXCEPT ![w] = "global_write"]
    /\ wLog' = Append(wLog, Event(w, "read", "global", globalDoc))
    /\ UNCHANGED <<courseDoc, globalDoc>>
    /\ WriterFrame

\* lines 133-172
GlobalWrite(w) ==
    /\ wPc[w] = "global_write"
    /\ globalDoc' = UpdatedGlobalContent(wBuf[w], TheCourse, wData[w], today, w)
    /\ wPc' = [wPc EXCEPT ![w] = "done"]
    /\ wLog' = Append(wLog, Event(w, "write", "global", globalDoc'))
    /\ UNCHANGED <<courseDoc, wBuf>>
    /\ WriterFrame

NextWriters ==
    \E w \in Writers :
        \/ CourseExists(w) \/ CourseCreate(w) \/ CourseRead(w) \/ CourseWrite(w)
        \/ GlobalExists(w) \/ GlobalCreate(w) \/ GlobalRead(w) \/ GlobalWrite(w)

SpecWriters == InitWriters /\ [][NextWriters]_vars

\* The entry marker of a master file
EntryKind(doc) == IF doc = "course" THEN "h3week" ELSE "gentry"

\* C25: under any interleaving of the read and rewrite steps of two
\* invocations that update the same tracking document, every content written
\* to the document has a 'Total Readings' footer value equal to the number of
\* entry markers in the body of that content.
C25_WrittenFooterMatchesBody ==
    \A i \in 1..Len(wLog) :
        wLog[i].op \in {"create", "write"} =>
            FooterValues(wLog[i].content, "readings")
                = {CountKind(wLog[i].content, EntryKind(wLog[i].doc))}

\* The position in the log of the step op of invocation w on doc, 0 if none
Pos(w, op, doc) ==
    FirstMatch({i \in 1..Len(wLog) :
                   wLog[i].w = w /\ wLog[i].op = op /\ wLog[i].doc = doc})

AllDone == \A w \in Writers : wPc[w] = "done"

FileOfDoc(doc) == IF doc = "course" THEN courseDoc ELSE globalDoc

\* The file holds the entry that invocation w added
HasEntry(doc, w) ==
    \E i \in 1..Len(FileOfDoc(doc)) :
        FileOfDoc(doc)[i].k = EntryKind(doc) /\ FileOfDoc(doc)[i].n = w

\* Both invocations read doc before either wrote its update
BothReadFirst(doc) ==
    \A a, b \in Writers : Pos(a, "read", doc) < Pos(b, "write", doc)

\* The update of doc by a (from its exists() to its write) precedes b's
Precedes(a, b, doc) == Pos(a, "write", doc) < Pos(b, "exists", doc)

\* Each invocation wrote both master files without having read what the
\* other one wrote: of the three entries added to a file it holds two, and
\* its footer says two
C25_Witness ==
    /\ AllDone
    /\ BothReadFirst("course")
    /\ BothReadFirst("global")
    /\ wLog[1].content = EarlierCourseDoc
    /\ FooterValues(courseDoc, "readings") = {2}
    /\ FooterValues(globalDoc, "readings") = {2}

====
